---- MODULE Spec2Model ----
(***************************************************************************)
(* Model of the chunking and ranking core of kemet-ai-task:                *)
(*   src/src/ingestion/chunker.py   TextChunker                            *)
(*   src/src/config/settings.py     Settings                               *)
(*   src/src/core/language.py       LanguageDetector                       *)
(*   src/src/retrieval/*.py         HybridSearcher / VectorStore           *)
(* A Python str is a sequence of one-character strings.                    *)
(***************************************************************************)
EXTENDS Integers, Sequences, FiniteSets, TLC

VARIABLES
    settings,        \* the module-level Settings instance
    chunker,         \* the TextChunker instance: None before __init__ has run
    pc,              \* where the caller of the chunker / searcher is
    text,            \* argument of the running / last chunker call
    pieces,          \* list returned by _split_text
    fs_start,        \* _force_split: local variable start
    fs_chunks,       \* _force_split: local variable chunks
    page_texts,      \* chunk_document: argument page_texts
    file_type,       \* chunk / chunk_document: argument file_type
    doc_chunks,      \* chunk / chunk_document: returned list of DocumentChunk
    raised,          \* exception raised by the last call, None if it returned
    dense_results,   \* the index's dense ranking for the query (ids, best first)
    sparse_results,  \* the index's sparse ranking for the query (ids, best first)
    dense_weight,    \* HybridSearcher.search: argument dense_weight
    top_k,           \* HybridSearcher.search: search_limit
    combined,        \* HybridSearcher.search: returned list of {id, score}
    spc,             \* where the caller of the searcher is
    rr_results,      \* Reranker.rerank: the results argument
    rr_top_k,        \* Reranker.rerank: the top_k argument
    rr_answer,       \* Reranker.rerank: what provider.rerank answered
    rr_calls,        \* Reranker.rerank: number of provider.rerank calls made
    rr_raised,       \* Reranker.rerank: exception raised, or None
    reranked,        \* Reranker.rerank: returned list
    rpc,             \* where the caller of the reranker is
    gen_results,     \* ResponseGenerator.generate: the results argument
    gen_language,    \* ResponseGenerator.generate: the language argument
    gen_prompt,      \* ResponseGenerator.generate: system prompt context given to the provider
    gen_answer,      \* ResponseGenerator.generate: what provider.generate_text answered
    gen_calls,       \* ResponseGenerator.generate: number of provider.generate_text calls
    gen_raised,      \* ResponseGenerator.generate: exception raised, or None
    gen_result,      \* ResponseGenerator.generate: the GenerationResult returned
    gpc,             \* where the caller of the generator is
    q_question,      \* RAGOrchestrator.query: the question argument
    q_total_chunks,  \* points in the vector store while the query runs
    q_language,      \* RAGOrchestrator.query: lang_code
    q_search_results,\* RAGOrchestrator.query: search_results, None (<<>>) before step 3
    q_reranked,      \* RAGOrchestrator.query: reranked_results
    q_result,        \* RAGOrchestrator.query: the GenerationResult returned, or None (<<>>)
    q_raised,        \* RAGOrchestrator.query: exception that reached the caller
    q_failed,        \* the external call that failed during the query, "none" if none
    q_sparse_query,  \* HybridSearcher.search: sparse_query ("none" before it is made)
    q_dense,         \* what the dense prefetch found, None (<<>>) before the search
    q_sparse,        \* what the sparse prefetch found, None (<<>>) before the search
    q_calls,         \* the calls query has made so far, in order
    qpc,             \* the statement of query the caller is at
    pl_chunks,       \* _detect_primary_language: chunks
    pl_det,          \* what the langdetect model does on each chunk's content
    pl_out,          \* what _detect_primary_language returned or raised
    plpc,            \* where the caller of _detect_primary_language is
    points,          \* the points of the collection: point id -> chunk
    added,           \* the chunks passed to the add_chunks calls that returned since
                     \* the collection was last created
    serial,          \* the number of add_chunks calls since then
    ac,              \* the add_chunks call of each caller: statement, arguments, locals
    ipc,             \* the statement of ingest_document the caller is at
    i_filename,      \* ingest_document: filename
    i_size,          \* len(file_bytes)
    i_parsed,        \* parsed, None (<<>>) before the parser returned
    i_chunks,        \* chunks
    i_result,        \* the IngestionResult made so far, None (<<>>) if none
    i_raised,        \* the exception ingest_document raised, with the call it came from
    i_calls,         \* the calls ingest_document has made so far, in order
    i_before,        \* the points of the collection when ingest_document was called
    c_messages,      \* ConversationContext.messages
    c_max_turns,     \* get_recent_messages: max_turns
    c_out,           \* what get_recent_messages returned
    cpc              \* where the caller of get_recent_messages is

splitVars  == <<text, pieces, fs_start, fs_chunks>>
docVars    == <<page_texts, file_type, doc_chunks, raised>>
searchVars == <<dense_results, sparse_results, dense_weight, top_k, combined, spc>>

rerankVars == <<rr_results, rr_top_k, rr_answer, rr_calls, rr_raised, reranked, rpc>>
genVars == <<gen_results, gen_language, gen_prompt, gen_answer, gen_calls, gen_raised,
             gen_result, gpc>>
queryVars == <<q_question, q_total_chunks, q_language, q_search_results, q_reranked,
               q_result, q_raised, q_failed, q_sparse_query, q_dense, q_sparse, q_calls,
               qpc>>
primaryVars == <<pl_chunks, pl_det, pl_out, plpc>>
storeVars == <<points, added, serial, ac>>
ingestVars == <<ipc, i_filename, i_size, i_parsed, i_chunks, i_result, i_raised, i_calls,
                i_before>>
convVars == <<c_messages, c_max_turns, c_out, cpc>>
laterVars == <<primaryVars, storeVars, ingestVars, convVars>>
vars == <<settings, chunker, pc, splitVars, docVars, searchVars, rerankVars, genVars,
          queryVars, laterVars>>

None == "None"

----------------------------------------------------------------------------
(* Bounds of the model                                                     *)

\* longest text handed to _split_text / _force_split
MaxLen == 5
\* largest explicit chunk_size / overlap argument of TextChunker(...)
MaxSize == 2
\* most pages of a document handed to chunk_document
MaxPages == 2
\* most iterations of the _force_split loop that are followed
MaxIter == 6

\* number of stored points the rankings draw from (ids 1..MaxDocs)
MaxDocs == 3
\* largest explicit top_k argument of HybridSearcher.search
MaxTopK == 2

\* characters of the input texts; " " and "\n" are whitespace
Alphabet == {"a", " ", "\n", "."}

RECURSIVE TextsOfLen(_)
TextsOfLen(n) ==
    IF n = 0 THEN {<<>>}
    ELSE {Append(t, c) : t \in TextsOfLen(n - 1), c \in Alphabet}

Texts == UNION {TextsOfLen(n) : n \in 0..MaxLen}

\* the page texts of the documents handed to chunk_document: empty, blank,
\* one segment, several segments, long enough for language detection, and
\* with a blank first line
DocPages ==
    { <<>>, <<" ", " ", "\n">>, <<"a">>, <<"a", " ", "a">>,
      <<"a", "a", "a">>, <<" ", "\n", "a">> }

RECURSIVE DocsOfLen(_)
DocsOfLen(n) ==
    IF n = 0 THEN {<<>>}
    ELSE {Append(d, p) : d \in DocsOfLen(n - 1), p \in DocPages}

Documents == UNION {DocsOfLen(n) : n \in 0..MaxPages}

\* the texts handed to chunk: the page texts and every whitespace-only text
ChunkTexts == DocPages \cup {t \in Texts : \A i \in 1..Len(t) : t[i] \in {" ", "\n"}}

FileTypes == {"pdf", "txt", "md"}

----------------------------------------------------------------------------
(* Python str primitives                                                   *)

IsSpace(c) == c \in {" ", "\n"}

RECURSIVE lstrip(_)
lstrip(s) == IF s # <<>> /\ IsSpace(Head(s)) THEN lstrip(Tail(s)) ELSE s

RECURSIVE rstrip(_)
rstrip(s) ==
    IF s # <<>> /\ IsSpace(s[Len(s)]) THEN rstrip(SubSeq(s, 1, Len(s) - 1)) ELSE s

\* str.strip()
strip(s) == rstrip(lstrip(s))

\* sep occurs in s at 1-based position i
OccursAt(s, sep, i) ==
    /\ i + Len(sep) - 1 <= Len(s)
    /\ SubSeq(s, i, i + Len(sep) - 1) = sep

\* `sep in s` for a non-empty sep
Contains(s, sep) == \E i \in 1..Len(s) : OccursAt(s, sep, i)

\* str.split(sep): leftmost non-overlapping occurrences, empty parts kept
RECURSIVE SplitFrom(_, _, _, _)
SplitFrom(s, sep, i, from) ==
    IF i + Len(sep) - 1 > Len(s) THEN <<SubSeq(s, from, Len(s))>>
    ELSE IF OccursAt(s, sep, i)
         THEN <<SubSeq(s, from, i - 1)>>
              \o SplitFrom(s, sep, i + Len(sep), i + Len(sep))
         ELSE SplitFrom(s, sep, i + 1, from)

split(s, sep) == SplitFrom(s, sep, 1, 1)

\* index normalisation of a slice bound: negative counts from the end, clamped
SliceIndex(i, n) ==
    IF i < 0 THEN (IF i + n < 0 THEN 0 ELSE i + n)
    ELSE IF i > n THEN n ELSE i

\* s[lo:hi] with 0-based Python bounds
Slice(s, lo, hi) == SubSeq(s, SliceIndex(lo, Len(s)) + 1, SliceIndex(hi, Len(s)))

\* an Optional[int] argument: <<>> is None, <<n>> is the int n
NoneInt == <<>>
IntArg(n) == <<n>>

\* x or y, for an Optional[int] x and an int y
PyOr(x, y) == IF x = NoneInt \/ x = IntArg(0) THEN y ELSE x[1]

----------------------------------------------------------------------------
(* Settings (src/src/config/settings.py)                                   *)

\* Field defaults and ranges of chunk_size and chunk_overlap
DefaultChunkSize == 512
DefaultChunkOverlap == 60
MinChunkSize == 100
MaxChunkOverlap == 500

DefaultTopKRetrieval == 10
DefaultRerankTopK == 5
MinRerankTopK == 1
MaxRerankTopK == 20

\* Settings() instances the Field constraints accept; validate_overlap returns
\* its argument unchanged and validate_settings is called by nobody
SettingsValues ==
    { [chunk_size |-> DefaultChunkSize, chunk_overlap |-> DefaultChunkOverlap,
       top_k_retrieval |-> DefaultTopKRetrieval, rerank_top_k |-> DefaultRerankTopK],
      [chunk_size |-> MinChunkSize,     chunk_overlap |-> 0,
       top_k_retrieval |-> DefaultTopKRetrieval, rerank_top_k |-> MinRerankTopK],
      [chunk_size |-> MinChunkSize,     chunk_overlap |-> MaxChunkOverlap,
       top_k_retrieval |-> DefaultTopKRetrieval, rerank_top_k |-> MaxRerankTopK] }

----------------------------------------------------------------------------
(* TextChunker (src/src/ingestion/chunker.py)                              *)

\* the character U+060C (Arabic comma)
ArabicComma == "U+060C"

\* _split_text: separators, in order of preference
separators ==
    << <<"\n", "\n">>, <<"\n">>, <<".", " ">>, <<ArabicComma, " ">>, <<" ">>, <<>> >>

\* TextChunker.__init__
TextChunkerInit(chunk_size, overlap) ==
    [chunk_size |-> PyOr(chunk_size, settings.chunk_size),
     overlap    |-> PyOr(overlap, settings.chunk_overlap)]

\* _recursive_split, the for loop: index of the first separator of seps that is
\* non-empty and occurs in t, 0 if there is none
RECURSIVE FirstSeparator(_, _, _)
FirstSeparator(t, seps, i) ==
    IF i > Len(seps) THEN 0
    ELSE IF seps[i] # <<>> /\ Contains(t, seps[i]) THEN i
    ELSE FirstSeparator(t, seps, i + 1)

\* separators[separators.index(separator) + 1:], separator being seps[i]
RemainingSeparators(seps, i) ==
    LET idx == CHOOSE j \in 1..Len(seps) :
                   /\ seps[j] = seps[i]
                   /\ \A m \in 1..(j - 1) : seps[m] # seps[i]
    IN  SubSeq(seps, idx + 1, Len(seps))

\* _force_split, loop body: the chunk appended for the window starting at start
ForceWindow(self, t, start) == strip(Slice(t, start, start + self.chunk_size))

\* _force_split, loop body: the next value of start ("move back by overlap")
ForceNextStart(self, start) == (start + self.chunk_size) - self.overlap

\* _force_split: the while loop, from the loop state (start, chunks)
RECURSIVE ForceLoop(_, _, _, _)
ForceLoop(self, t, start, chunks) ==
    IF ~(start < Len(t)) THEN chunks
    ELSE ForceLoop(self, t, ForceNextStart(self, start),
                   Append(chunks, ForceWindow(self, t, start)))

\* _force_split, the return statement: empty chunks removed
RemoveEmpty(chunks) == SelectSeq(chunks, LAMBDA c : c # <<>>)

\* _force_split
force_split(self, t) == RemoveEmpty(ForceLoop(self, t, 0, <<>>))

\* _add_overlap without "trim if too long"
OverlapElementNoTrim(self, chunks, i) ==
    IF i = 1 THEN chunks[i]
    ELSE LET prev_chunk   == chunks[i - 1]
             overlap_text == IF Len(prev_chunk) > self.overlap
                             THEN Slice(prev_chunk, 0 - self.overlap, Len(prev_chunk))
                             ELSE prev_chunk
         IN  overlap_text \o <<" ">> \o chunks[i]

\* _add_overlap, one element of the result
OverlapElement(self, chunks, i) ==
    IF i = 1 THEN chunks[i]
    ELSE LET prev_chunk   == chunks[i - 1]
             overlap_text == IF Len(prev_chunk) > self.overlap
                             THEN Slice(prev_chunk, 0 - self.overlap, Len(prev_chunk))
                             ELSE prev_chunk
             new_chunk    == overlap_text \o <<" ">> \o chunks[i]
         IN  IF Len(new_chunk) > self.chunk_size
             THEN Slice(new_chunk, 0, self.chunk_size)
             ELSE new_chunk

\* _add_overlap
add_overlap(self, chunks) ==
    IF Len(chunks) <= 1 \/ self.overlap = 0 THEN chunks
    ELSE [i \in 1..Len(chunks) |-> OverlapElement(self, chunks, i)]

RECURSIVE recursive_split(_, _, _), SplitLoop(_, _, _, _, _, _, _)

\* _split_with_separator, the for loop over parts from part i on, with the
\* loop state (chunks, current_chunk), and the flush after the loop
SplitLoop(self, parts, i, si, seps, chunks, current_chunk) ==
    IF i > Len(parts)
    THEN IF strip(current_chunk) # <<>>
         THEN Append(chunks, strip(current_chunk))
         ELSE chunks
    ELSE LET part       == parts[i]
             test_chunk == IF current_chunk # <<>>
                           THEN current_chunk \o seps[si] \o part
                           ELSE part
             flushed    == IF current_chunk # <<>>
                           THEN Append(chunks, strip(current_chunk))
                           ELSE chunks
         IN  IF Len(test_chunk) <= self.chunk_size
             THEN SplitLoop(self, parts, i + 1, si, seps, chunks, test_chunk)
             ELSE IF Len(part) > self.chunk_size
                  THEN SplitLoop(self, parts, i + 1, si, seps,
                           flushed \o recursive_split(self, part,
                                          RemainingSeparators(seps, si)),
                           <<>>)
                  ELSE SplitLoop(self, parts, i + 1, si, seps, flushed, part)

\* _split_with_separator, separator being seps[si]
split_with_separator(self, t, si, seps) ==
    add_overlap(self, SplitLoop(self, split(t, seps[si]), 1, si, seps, <<>>, <<>>))

\* _recursive_split
recursive_split(self, t, seps) ==
    IF Len(t) <= self.chunk_size
    THEN IF strip(t) # <<>> THEN <<strip(t)>> ELSE <<>>
    ELSE LET si == FirstSeparator(t, seps, 1)
         IN  IF si # 0
             THEN split_with_separator(self, t, si, seps)
             ELSE force_split(self, t)

\* _split_text
split_text(self, t) == recursive_split(self, t, separators)

\* a _split_text call reaches _force_split (chunker.py:177)
RECURSIVE ReachesForceSplit(_, _, _)
ReachesForceSplit(self, t, seps) ==
    IF Len(t) <= self.chunk_size THEN FALSE
    ELSE LET si == FirstSeparator(t, seps, 1)
         IN  IF si = 0 THEN TRUE
             ELSE \E part \in {split(t, seps[si])[j] : j \in 1..Len(split(t, seps[si]))} :
                      /\ Len(part) > self.chunk_size
                      /\ ReachesForceSplit(self, part, RemainingSeparators(seps, si))

\* the _split_text call returns: its _force_split loops, if any, move the
\* window forward (chunker.py:242-246)
Returns(self, t) ==
    self.chunk_size - self.overlap > 0 \/ ~ReachesForceSplit(self, t, separators)

----------------------------------------------------------------------------
(* LanguageDetector (src/src/core/language.py) and the Chunk Assembler      *)
(* (TextChunker.chunk, TextChunker.chunk_document)                          *)

\* what langdetect.detect does on a text: a language code, or it raises
DetectOutcomes == {"en", "ar", "fr", "LangDetectException"}

\* _detect_language: "use first 500 characters for detection"
SampleLen == 500

\* LanguageDetector.detect; detected is what the langdetect model does on t
detect(t, detected) ==
    IF t = <<>> \/ Len(strip(t)) < 3 THEN [raised |-> None, language |-> "unknown"]
    ELSE IF detected = "LangDetectException"
         THEN [raised |-> detected, language |-> None]
         ELSE [raised |-> None,
               language |-> IF detected = "en" THEN "en"
                            ELSE IF detected = "ar" THEN "ar"
                            ELSE "en"]

\* LanguageDetector.detect passes t to the langdetect model
ModelInvoked(t) == ~(t = <<>> \/ Len(strip(t)) < 3)

\* chunk without the empty-input test of its first statement
ChunkNoBlankTest(self, t, ft, page_number, total_pages, detected, uuids) ==
    LET text_pieces == split_text(self, t)
        d           == detect(Slice(t, 0, SampleLen), detected)
    IN  IF ~Returns(self, t) THEN [raised |-> "NoReturn", chunks |-> <<>>]
        ELSE IF d.raised # None THEN [raised |-> d.raised, chunks |-> <<>>]
        ELSE IF \E i \in 1..Len(text_pieces) : Len(text_pieces[i]) < 1
             THEN [raised |-> "ValidationError", chunks |-> <<>>]
             ELSE [raised |-> None,
                   chunks |-> [i \in 1..Len(text_pieces) |->
                                 [content     |-> text_pieces[i],
                                  document_id |-> uuids + i,
                                  page_number |-> page_number,
                                  total_pages |-> total_pages,
                                  language    |-> d.language,
                                  file_type   |-> ft,
                                  chunk_index |-> i - 1]]]

\* TextChunker.chunk: the list of DocumentChunk, or the exception raised
\* ("NoReturn": the _split_text call never returns). DocumentChunk validates
\* content with min_length=1 (models.py:71-75). Each DocumentMetadata draws its
\* document_id from uuid4(): the value after the uuids values drawn before it.
chunk(self, t, ft, page_number, total_pages, detected, uuids) ==
    IF t = <<>> \/ strip(t) = <<>> THEN [raised |-> None, chunks |-> <<>>]
    ELSE LET text_pieces == split_text(self, t)
             d           == detect(Slice(t, 0, SampleLen), detected)
         IN  IF ~Returns(self, t) THEN [raised |-> "NoReturn", chunks |-> <<>>]
             ELSE IF d.raised # None THEN [raised |-> d.raised, chunks |-> <<>>]
             ELSE IF \E i \in 1..Len(text_pieces) : Len(text_pieces[i]) < 1
                  THEN [raised |-> "ValidationError", chunks |-> <<>>]
                  ELSE [raised |-> None,
                        chunks |-> [i \in 1..Len(text_pieces) |->
                                      [content     |-> text_pieces[i],
                                       document_id |-> uuids + i,
                                       page_number |-> page_number,
                                       total_pages |-> total_pages,
                                       language    |-> d.language,
                                       file_type   |-> ft,
                                       chunk_index |-> i - 1]]]

\* chunk_document passing the page arguments whatever the file type is
PageArgAlways(ft, n) == IntArg(n)

\* chunk_document: `page_num if file_type == "pdf" else None` (and total_pages)
PageArg(ft, n) == IF ft = "pdf" THEN IntArg(n) ELSE NoneInt

\* chunk_document: the loop over the pages, from page page_num on
RECURSIVE ChunkPages(_, _, _, _, _, _)
ChunkPages(self, pages, ft, det, page_num, all_chunks) ==
    IF page_num > Len(pages) THEN [raised |-> None, chunks |-> all_chunks]
    ELSE LET page_chunks ==
                 chunk(self, pages[page_num], ft,
                       PageArg(ft, page_num), PageArg(ft, Len(pages)),
                       IF page_num \in DOMAIN det THEN det[page_num] ELSE "en",
                       Len(all_chunks))
         IN  IF page_chunks.raised # None THEN page_chunks
             ELSE ChunkPages(self, pages, ft, det, page_num + 1,
                             all_chunks \o page_chunks.chunks)

\* chunk_document with the chunks left as chunk() indexed them
ReindexSkipped(all_chunks) == all_chunks

\* chunk_document: "re-index all chunks globally"
Reindex(all_chunks) ==
    [i \in 1..Len(all_chunks) |-> [all_chunks[i] EXCEPT !.chunk_index = i - 1]]

\* TextChunker.chunk_document; det[i] is what the langdetect model does on page i
chunk_document(self, pages, ft, det) ==
    LET r == ChunkPages(self, pages, ft, det, 1, <<>>)
    IN  IF r.raised # None THEN r
        ELSE [raised |-> None, chunks |-> Reindex(r.chunks)]

----------------------------------------------------------------------------
(* The chunker's callers                                                   *)

Init ==
    /\ settings \in SettingsValues
    /\ chunker = None
    /\ pc = "new"
    /\ text = <<>>
    /\ pieces = <<>>
    /\ fs_start = 0
    /\ fs_chunks = <<>>
    /\ page_texts = <<>>
    /\ file_type = None
    /\ doc_chunks = <<>>
    /\ raised = None
    /\ dense_results = <<>>
    /\ sparse_results = <<>>
    /\ dense_weight = <<1, 2>>
    /\ top_k = 0
    /\ combined = <<>>
    /\ spc = "idle"
    /\ rr_results = <<>>
    /\ rr_top_k = NoneInt
    /\ rr_answer = [failed |-> FALSE, pairs |-> <<>>]
    /\ rr_calls = 0
    /\ rr_raised = None
    /\ reranked = <<>>
    /\ rpc = "idle"
    /\ gen_results = <<>>
    /\ gen_language = "en"
    /\ gen_prompt = <<>>
    /\ gen_answer = [failed |-> FALSE, text |-> <<>>]
    /\ gen_calls = 0
    /\ gen_raised = None
    /\ gen_result = <<>>
    /\ gpc = "idle"
    /\ q_question = <<>>
    /\ q_total_chunks = 0
    /\ q_language = "unknown"
    /\ q_search_results = <<>>
    /\ q_reranked = <<>>
    /\ q_result = <<>>
    /\ q_raised = [error |-> None, raised_in |-> "none"]
    /\ q_failed = "none"
    /\ q_sparse_query = "none"
    /\ q_dense = <<>>
    /\ q_sparse = <<>>
    /\ q_calls = <<>>
    /\ qpc = "idle"
    /\ pl_chunks = <<>>
    /\ pl_det = <<>>
    /\ pl_out = [raised |-> None, language |-> "unknown", calls |-> 0]
    /\ plpc = "idle"
    /\ points = <<>>
    /\ added = {}
    /\ serial = 0
    /\ ac = [p \in {"A", "B"} |-> [pc |-> "idle", chunks |-> <<>>, i |-> 0, points |-> <<>>]]
    /\ ipc = "idle"
    /\ i_filename = <<>>
    /\ i_size = 0
    /\ i_parsed = <<>>
    /\ i_chunks = <<>>
    /\ i_result = <<>>
    /\ i_raised = [error |-> None, raised_in |-> "none"]
    /\ i_calls = <<>>
    /\ i_before = <<>>
    /\ c_messages = <<>>
    /\ c_max_turns = 0
    /\ c_out = <<>>
    /\ cpc = "idle"

SizeArgs == {NoneInt} \cup {IntArg(n) : n \in 0..MaxSize}

\* TextChunker(chunk_size, overlap)
Construct(chunk_size, overlap) ==
    /\ pc = "new"
    /\ chunker' = TextChunkerInit(chunk_size, overlap)
    /\ pc' = "ready"
    /\ UNCHANGED <<settings, splitVars, docVars, searchVars, rerankVars, genVars, queryVars, laterVars>>

\* chunker._split_text(t), for a call that returns
SplitText(t) ==
    /\ pc = "ready"
    /\ Returns(chunker, t)
    /\ text' = t
    /\ pieces' = split_text(chunker, t)
    /\ pc' = "split"
    /\ UNCHANGED <<settings, chunker, fs_start, fs_chunks, docVars, searchVars, rerankVars, genVars, queryVars, laterVars>>

\* _recursive_split reaches `return self._force_split(text)`: t is longer than
\* chunk_size and holds none of the separators
ForceSplitCall(t) ==
    /\ pc = "ready"
    /\ Len(t) > chunker.chunk_size
    /\ FirstSeparator(t, separators, 1) = 0
    /\ text' = t
    /\ fs_start' = 0
    /\ fs_chunks' = <<>>
    /\ pc' = "force_split"
    /\ UNCHANGED <<settings, chunker, pieces, docVars, searchVars, rerankVars, genVars, queryVars, laterVars>>

\* one iteration of the while loop of _force_split
ForceSplitIter ==
    /\ pc = "force_split"
    /\ fs_start < Len(text)
    /\ Len(fs_chunks) < MaxIter
    /\ fs_chunks' = Append(fs_chunks, ForceWindow(chunker, text, fs_start))
    /\ fs_start' = ForceNextStart(chunker, fs_start)
    /\ UNCHANGED <<settings, chunker, pc, text, pieces, docVars, searchVars, rerankVars, genVars, queryVars, laterVars>>

\* the while loop of _force_split ends and the method returns
ForceSplitReturn ==
    /\ pc = "force_split"
    /\ ~(fs_start < Len(text))
    /\ pieces' = RemoveEmpty(fs_chunks)
    /\ pc' = "force_done"
    /\ UNCHANGED <<settings, chunker, text, fs_start, fs_chunks, docVars, searchVars, rerankVars, genVars, queryVars, laterVars>>

\* chunker.chunk(t, document_name, ft), for a call that returns or raises
Chunk(t, ft, detected) ==
    /\ pc = "ready"
    /\ LET r == chunk(chunker, t, ft, NoneInt, NoneInt, detected, 0)
       IN  /\ r.raised # "NoReturn"
           /\ doc_chunks' = r.chunks
           /\ raised' = r.raised
    /\ text' = t
    /\ file_type' = ft
    /\ pc' = "chunked"
    /\ UNCHANGED <<settings, chunker, pieces, fs_start, fs_chunks, page_texts, searchVars, rerankVars, genVars, queryVars, laterVars>>

\* chunker.chunk_document(pages, document_name, ft), for a call that returns or
\* raises
ChunkDocument(pages, ft, det) ==
    /\ pc = "ready"
    /\ LET r == chunk_document(chunker, pages, ft, det)
       IN  /\ r.raised # "NoReturn"
           /\ doc_chunks' = r.chunks
           /\ raised' = r.raised
    /\ page_texts' = pages
    /\ file_type' = ft
    /\ pc' = "document"
    /\ UNCHANGED <<settings, chunker, splitVars, searchVars, rerankVars, genVars, queryVars, laterVars>>

\* the caller drops the result; the chunker is ready for the next call
Return ==
    /\ pc \in {"split", "force_done", "chunked", "document"}
    /\ pc' = "ready"
    /\ text' = <<>>
    /\ pieces' = <<>>
    /\ fs_start' = 0
    /\ fs_chunks' = <<>>
    /\ page_texts' = <<>>
    /\ file_type' = None
    /\ doc_chunks' = <<>>
    /\ raised' = None
    /\ UNCHANGED <<settings, chunker, searchVars, rerankVars, genVars, queryVars, laterVars>>

NextSplit ==
    \/ pc = "new" /\ \E cs \in SizeArgs, ov \in SizeArgs : Construct(cs, ov)
    \/ pc = "ready" /\ \E t \in Texts : SplitText(t)
    \/ pc = "ready" /\ \E t \in Texts : ForceSplitCall(t)
    \/ ForceSplitIter
    \/ ForceSplitReturn
    \/ Return

\* splitting: construction, _split_text, and the _force_split loop step by step
SpecSplit == Init /\ [][NextSplit]_vars

\* the outcomes of the langdetect model on the texts passed to it
DetectChoices(t) ==
    IF ModelInvoked(Slice(t, 0, SampleLen)) THEN DetectOutcomes ELSE {"en"}

NextDoc ==
    \/ pc = "new" /\ \E cs \in SizeArgs, ov \in SizeArgs : Construct(cs, ov)
    \/ pc = "ready" /\ \E t \in ChunkTexts, ft \in FileTypes :
           \E detected \in DetectChoices(t) : Chunk(t, ft, detected)
    \/ pc = "ready" /\ \E pages \in Documents, ft \in FileTypes :
           \E det \in [{i \in 1..Len(pages) : ModelInvoked(Slice(pages[i], 0, SampleLen))}
                          -> DetectOutcomes] :
               ChunkDocument(pages, ft, det)
    \/ Return

\* chunk assembly: construction, chunk and chunk_document
SpecDoc == Init /\ [][NextDoc]_vars

----------------------------------------------------------------------------
(* HybridSearcher.search and VectorStore.search_hybrid                     *)
(* (src/src/retrieval/hybrid_search.py, vector_store.py)                   *)

\* a score or weight is a rational <<numerator, denominator>>, denominator > 0
RatAdd(x, y) == <<x[1] * y[2] + y[1] * x[2], x[2] * y[2]>>
RatMul(x, y) == <<x[1] * y[1], x[2] * y[2]>>
RatEq(x, y) == x[1] * y[2] = y[1] * x[2]
RatLess(x, y) == x[1] * y[2] < y[1] * x[2]

\* dense_weight arguments: 0, 0.3, 0.5 (the default) and 1.0
Weights == {<<0, 1>>, <<3, 10>>, <<1, 2>>, <<1, 1>>}

\* a ranked list: ids of stored points, best first, without repetition
RECURSIVE RankedListsOfLen(_)
RankedListsOfLen(n) ==
    IF n = 0 THEN {<<>>}
    ELSE {Append(l, id) : l \in RankedListsOfLen(n - 1), id \in 1..MaxDocs}

IsRanking(l) == \A i, j \in 1..Len(l) : i # j => l[i] # l[j]

\* every ranked list over the stored points
AllRankings ==
    {l \in UNION {RankedListsOfLen(n) : n \in 0..MaxDocs} : IsRanking(l)}

\* what a Prefetch with limit = limit can return from the index
Rankings(limit) == {l \in AllRankings : Len(l) <= limit}

\* 1-based rank of id in the ranked list, 0 if it is absent
RankIn(l, id) ==
    IF \E i \in 1..Len(l) : l[i] = id
    THEN CHOOSE i \in 1..Len(l) : l[i] = id
    ELSE 0

\* the damping constant of the index's Fusion.RRF operator, which search_hybrid
\* does not set: the library's own default or the repository's k
NativeRRFConstants == {2, 60}

\* models.Fusion.RRF: one prefetch's contribution to a point's score; both
\* prefetches weigh the same ("Native RRF weighs rank sets equally")
NativeContribution(l, id, kq) ==
    IF RankIn(l, id) = 0 THEN <<0, 1>> ELSE <<1, kq + RankIn(l, id)>>

\* models.Fusion.RRF: the fused score of a point
NativeScore(dense, sparse, id, kq) ==
    RatAdd(NativeContribution(dense, id, kq), NativeContribution(sparse, id, kq))

\* the points of either prefetch
Candidates(dense, sparse) ==
    {dense[i] : i \in 1..Len(dense)} \cup {sparse[i] : i \in 1..Len(sparse)}

\* the orderings of a set of points
RECURSIVE Orderings(_)
Orderings(ids) ==
    IF ids = {} THEN {<<>>}
    ELSE UNION {{<<id>> \o o : o \in Orderings(ids \ {id})} : id \in ids}

\* query_points without the ordering by score
FusedOrdersUnsorted(dense, sparse, kq) == Orderings(Candidates(dense, sparse))

\* the orders query_points can return the fused points in: by descending
\* score, points of equal score in any order
FusedOrders(dense, sparse, kq) ==
    {o \in Orderings(Candidates(dense, sparse)) :
        \A i \in 1..(Len(o) - 1) :
            ~RatLess(NativeScore(dense, sparse, o[i], kq),
                     NativeScore(dense, sparse, o[i + 1], kq))}

\* the payload add_chunks stored with a point: a text is a sequence of
\* characters, page_number is None (<<>>) unless the chunk came from a pdf
DecimalDigits == <<"0", "1", "2", "3", "4", "5", "6", "7", "8", "9">>

\* str(n) for n >= 0
RECURSIVE DecimalStr(_)
DecimalStr(n) ==
    IF n < 10 THEN <<DecimalDigits[n + 1]>>
    ELSE DecimalStr(n \div 10) \o <<DecimalDigits[(n % 10) + 1]>>

StoredPayload(id) ==
    [chunk_id      |-> <<"i", "d">> \o DecimalStr(id),
     content       |-> <<"c">> \o DecimalStr(id),
     document_name |-> IF id % 2 = 1 THEN <<"a", ".", "p", "d", "f">>
                                     ELSE <<"b", ".", "t", "x", "t">>,
     page_number   |-> IF id % 2 = 1 THEN IntArg(id) ELSE NoneInt,
     language      |-> IF id % 2 = 1 THEN "en" ELSE "ar",
     file_type     |-> IF id % 2 = 1 THEN "pdf" ELSE "txt",
     chunk_index   |-> id - 1]

\* VectorStore._format_results over the first `limit` fused points
format_results(order, dense, sparse, kq, limit) ==
    [i \in 1..(IF Len(order) < limit THEN Len(order) ELSE limit) |->
        [id |-> order[i], score |-> NativeScore(dense, sparse, order[i], kq),
         payload |-> StoredPayload(order[i])]]

TopKArgs == {NoneInt} \cup {IntArg(n) : n \in 0..MaxTopK}

\* HybridSearcher.search(query, top_k, dense_weight): dense and sparse are what
\* the two prefetches of search_hybrid find for the query's embeddings, kq and
\* order what the index's fusion operator does with them. dense_weight is not
\* passed on to search_hybrid.
Search(tk, dw, dense, sparse, kq, order) ==
    /\ spc = "idle"
    /\ LET search_limit == PyOr(tk, settings.top_k_retrieval)
       IN  /\ top_k' = search_limit
           /\ combined' = format_results(order, dense, sparse, kq, search_limit)
    /\ dense_weight' = dw
    /\ dense_results' = dense
    /\ sparse_results' = sparse
    /\ spc' = "searched"
    /\ UNCHANGED <<settings, chunker, pc, splitVars, docVars, rerankVars, genVars, queryVars, laterVars>>

\* the caller drops the result
SearchReturn ==
    /\ spc = "searched"
    /\ spc' = "idle"
    /\ dense_results' = <<>>
    /\ sparse_results' = <<>>
    /\ dense_weight' = <<1, 2>>
    /\ top_k' = 0
    /\ combined' = <<>>
    /\ UNCHANGED <<settings, chunker, pc, splitVars, docVars, rerankVars, genVars, queryVars, laterVars>>

NextSearch ==
    \/ spc = "idle" /\ \E tk \in TopKArgs, kq \in NativeRRFConstants :
           \E dense \in Rankings(PyOr(tk, settings.top_k_retrieval)),
              sparse \in Rankings(PyOr(tk, settings.top_k_retrieval)) :
               \E order \in FusedOrders(dense, sparse, kq), dw \in Weights :
                   Search(tk, dw, dense, sparse, kq, order)
    \/ SearchReturn

\* retrieval: HybridSearcher.search
SpecSearch == Init /\ [][NextSearch]_vars

----------------------------------------------------------------------------
(* Claims about splitting                                                  *)

\* the configuration the specification asks for: chunk_size > overlap >= 0
ValidConfig(self) == self.chunk_size > self.overlap /\ self.overlap >= 0

\* the non-whitespace characters of s, in order
NonWhitespace(s) == SelectSeq(s, LAMBDA c : ~IsSpace(c))

IsPrefix(a, b) == Len(a) <= Len(b) /\ SubSeq(b, 1, Len(a)) = a

\* C1: with chunk_size > overlap >= 0 every segment returned by _split_text
\* (and every window returned by _force_split) is at most chunk_size long.
C1_SegmentsWithinChunkSize ==
    (pc \in {"split", "force_done"} /\ ValidConfig(chunker))
        => \A i \in 1..Len(pieces) : Len(pieces[i]) <= chunker.chunk_size

\* a text longer than chunk_size was split into several segments, one of them an
\* overlap-augmented segment of exactly chunk_size characters
C1_Witness ==
    /\ pc = "split"
    /\ ValidConfig(chunker)
    /\ chunker.overlap > 0
    /\ Len(text) > chunker.chunk_size
    /\ Len(pieces) >= 3
    /\ ~ReachesForceSplit(chunker, text, separators)
    /\ \E i \in 2..Len(pieces) : Len(pieces[i]) = chunker.chunk_size

\* segs, from segment i on and with some prefix (none for the first segment and
\* none at all when overlap = 0) cut off each segment, continues acc to target
RECURSIVE Reconstructs(_, _, _, _, _)
Reconstructs(self, segs, i, acc, target) ==
    IF i > Len(segs) THEN acc = target
    ELSE \E p \in (IF i = 1 \/ self.overlap = 0 THEN {0} ELSE 0..Len(segs[i])) :
             LET next == acc \o NonWhitespace(SubSeq(segs[i], p + 1, Len(segs[i])))
             IN  IsPrefix(next, target) /\ Reconstructs(self, segs, i + 1, next, target)

\* C2: the segments, each with its overlap prefix removed, concatenate to a
\* string with exactly the non-whitespace characters of the input, in order.
\* Stated in the form most generous to the code: SOME prefix of each segment
\* after the first may be taken as its overlap prefix.
C2_NoTextDropped ==
    (pc = "split" /\ ValidConfig(chunker))
        => Reconstructs(chunker, pieces, 1, <<>>, NonWhitespace(text))

\* C3: construction rejects overlap >= chunk_size, so every TextChunker that
\* exists has overlap < chunk_size.
C3_ConstructionRejectsBadOverlap ==
    pc # "new" => chunker.overlap < chunker.chunk_size

\* C4: the _force_split loop advances its window start by a positive amount on
\* every iteration (so the loop, and with it chunking, finishes).
C4_ForceSplitAdvances ==
    [][(pc = "force_split" /\ pc' = "force_split") => fs_start' > fs_start]_vars

RECURSIVE PreOverlapSplit(_, _, _), PreOverlapLoop(_, _, _, _, _, _, _)

\* the segmentation before any overlap pass (spec 4.1, steps 1 to 5): the
\* buffer loop of _split_with_separator with no overlap pass at any level
PreOverlapLoop(self, parts, i, si, seps, chunks, current_chunk) ==
    IF i > Len(parts)
    THEN IF strip(current_chunk) # <<>>
         THEN Append(chunks, strip(current_chunk))
         ELSE chunks
    ELSE LET part       == parts[i]
             test_chunk == IF current_chunk # <<>>
                           THEN current_chunk \o seps[si] \o part
                           ELSE part
             flushed    == IF current_chunk # <<>>
                           THEN Append(chunks, strip(current_chunk))
                           ELSE chunks
         IN  IF Len(test_chunk) <= self.chunk_size
             THEN PreOverlapLoop(self, parts, i + 1, si, seps, chunks, test_chunk)
             ELSE IF Len(part) > self.chunk_size
                  THEN PreOverlapLoop(self, parts, i + 1, si, seps,
                           flushed \o PreOverlapSplit(self, part,
                                          RemainingSeparators(seps, si)),
                           <<>>)
                  ELSE PreOverlapLoop(self, parts, i + 1, si, seps, flushed, part)

PreOverlapSplit(self, t, seps) ==
    IF Len(t) <= self.chunk_size
    THEN IF strip(t) # <<>> THEN <<strip(t)>> ELSE <<>>
    ELSE LET si == FirstSeparator(t, seps, 1)
         IN  IF si # 0
             THEN PreOverlapLoop(self, split(t, seps[si]), 1, si, seps, <<>>, <<>>)
             ELSE force_split(self, t)

\* C5: the overlap pass is applied exactly once to the final segment list:
\* segment i > 1 is the last `overlap` characters of pre-overlap segment i - 1,
\* a space, and pre-overlap segment i, cut to chunk_size; segments out of a
\* recursive split get no second prefix. Stated for the texts whose split
\* never reaches _force_split, whose windows overlap by construction.
C5_OverlapAppliedOnce ==
    (pc = "split" /\ ValidConfig(chunker)
                  /\ ~ReachesForceSplit(chunker, text, separators))
        => pieces = add_overlap(chunker, PreOverlapSplit(chunker, text, separators))

\* C6: every segment returned for an input that chunk() passes to _split_text
\* (one with a non-whitespace character) has a non-whitespace character.
C6_SegmentsNotBlank ==
    (pc = "split" /\ ValidConfig(chunker) /\ strip(text) # <<>>)
        => \A i \in 1..Len(pieces) : strip(pieces[i]) # <<>>

----------------------------------------------------------------------------
(* Claims about chunk assembly                                             *)

IsBlank(t) == strip(t) = <<>>

\* number of segments _split_text returns for the non-blank pages from page i on
RECURSIVE SegmentCount(_, _, _)
SegmentCount(self, pages, i) ==
    IF i > Len(pages) THEN 0
    ELSE (IF IsBlank(pages[i]) THEN 0 ELSE Len(split_text(self, pages[i])))
         + SegmentCount(self, pages, i + 1)

\* C7: chunk on an empty or whitespace-only text returns the empty list and
\* raises nothing; in chunk_document such a page contributes no chunk: a
\* document of blank pages gives no chunk and no error, the chunks of a
\* document are those of its non-blank pages, and no chunk carries the page
\* number of a blank page.
C7_BlankTextYieldsNothing ==
    /\ (pc = "chunked" /\ IsBlank(text))
           => (raised = None /\ doc_chunks = <<>>)
    /\ (pc = "document" /\ \A i \in 1..Len(page_texts) : IsBlank(page_texts[i]))
           => (raised = None /\ doc_chunks = <<>>)
    /\ (pc = "document" /\ raised = None)
           => /\ Len(doc_chunks) = SegmentCount(chunker, page_texts, 1)
              /\ \A i \in 1..Len(doc_chunks) :
                     doc_chunks[i].page_number # NoneInt
                         => ~IsBlank(page_texts[doc_chunks[i].page_number[1]])

\* a document with a whitespace-only page longer than chunk_size next to a
\* page that produced chunks
C7_Witness ==
    /\ pc = "document"
    /\ raised = None
    /\ doc_chunks # <<>>
    /\ \E i \in 1..Len(page_texts) :
           IsBlank(page_texts[i]) /\ Len(page_texts[i]) > chunker.chunk_size

\* C8: after chunk_document returns n chunks, the chunk at position i has
\* chunk_index i (from 0): contiguous, increasing in page order, unique.
C8_GlobalChunkIndex ==
    (pc = "document" /\ raised = None)
        => /\ \A i \in 1..Len(doc_chunks) : doc_chunks[i].chunk_index = i - 1
           /\ \A i, j \in 1..Len(doc_chunks) :
                  (i < j /\ file_type = "pdf")
                      => doc_chunks[i].page_number[1] <= doc_chunks[j].page_number[1]

\* two pages that each produced at least two chunks
C8_Witness ==
    /\ pc = "document"
    /\ raised = None
    /\ file_type = "pdf"
    /\ Len(doc_chunks) >= 4
    /\ doc_chunks[2].page_number = IntArg(1)
    /\ doc_chunks[3].page_number = IntArg(2)
    /\ doc_chunks[4].page_number = IntArg(2)

\* C9: a chunk carries its page's 1-based position and the page count if and
\* only if file_type is "pdf"; for every other file type both are absent.
C9_PageMetadataOnlyForPdf ==
    (pc = "document" /\ raised = None)
        => \A i \in 1..Len(doc_chunks) :
               LET c == doc_chunks[i]
               IN  IF file_type = "pdf"
                   THEN /\ c.total_pages = IntArg(Len(page_texts))
                        /\ c.page_number # NoneInt
                        /\ c.page_number[1] \in 1..Len(page_texts)
                        /\ \E k \in 1..Len(split_text(chunker, page_texts[c.page_number[1]])) :
                               split_text(chunker, page_texts[c.page_number[1]])[k] = c.content
                   ELSE c.page_number = NoneInt /\ c.total_pages = NoneInt

\* a flat (non-pdf) document of two pages that produced chunks
C9_Witness ==
    /\ pc = "document"
    /\ raised = None
    /\ file_type # "pdf"
    /\ Len(page_texts) >= 2
    /\ Len(doc_chunks) >= 2

----------------------------------------------------------------------------
(* Claims about rank fusion                                                *)

\* the k of the RRF formula (hybrid_search.py, the local _rrf_fusion)
RRF_K == 60

\* weight / (k + rank), 0 for a candidate absent from the list
ClaimedContribution(weight, l, id) ==
    IF RankIn(l, id) = 0 THEN <<0, 1>>
    ELSE RatMul(weight, <<1, RRF_K + RankIn(l, id)>>)

\* dense_weight/(k + rank_in_dense) + (1 - dense_weight)/(k + rank_in_sparse)
ClaimedScore(dense, sparse, dw, id) ==
    RatAdd(ClaimedContribution(dw, dense, id),
           ClaimedContribution(<<dw[2] - dw[1], dw[2]>>, sparse, id))

\* C10: the fused score of each candidate is dense_weight/(k + rank_in_dense)
\* plus (1 - dense_weight)/(k + rank_in_sparse), with 1-based ranks, k = 60
\* and 0 for a list the candidate is absent from. Stated up to one common
\* positive factor for all the returned scores, the form most generous to a
\* fusion operator that scales its scores.
C10_FusedScoreFormula ==
    spc = "searched"
        => \A i, j \in 1..Len(combined) :
               LET ci == ClaimedScore(dense_results, sparse_results, dense_weight,
                                      combined[i].id)
                   cj == ClaimedScore(dense_results, sparse_results, dense_weight,
                                      combined[j].id)
               IN  /\ RatEq(RatMul(combined[i].score, cj), RatMul(combined[j].score, ci))
                   /\ (ci[1] = 0) <=> (combined[i].score[1] = 0)

\* the candidate identifiers of a result list, in order
Ids(results) == [i \in 1..Len(results) |-> results[i].id]

\* C11: the fused output is in descending fused score, candidates of equal
\* fused score are ordered by candidate identifier, and the output has at most
\* top_k entries.
C11_FusedOrderAndTies ==
    spc = "searched"
        => /\ \A i \in 1..(Len(combined) - 1) :
                  \/ RatLess(combined[i + 1].score, combined[i].score)
                  \/ /\ RatEq(combined[i + 1].score, combined[i].score)
                     /\ combined[i].id < combined[i + 1].id
           /\ Len(combined) <= top_k

\* the first n entries of a list
Restrict(l, n) == SubSeq(l, 1, IF Len(l) < n THEN Len(l) ELSE n)

\* C12: with dense_weight = 1.0 the fused order returned is the dense ranked
\* list restricted to its first top_k entries.
C12_DenseWeightOneIsDenseOrder ==
    (spc = "searched" /\ RatEq(dense_weight, <<1, 1>>))
        => Ids(combined) = Restrict(dense_results, top_k)

\* the constants of the index's fusion operator that explain the scores returned
ConsistentK ==
    {kq \in NativeRRFConstants :
        \E o \in FusedOrders(dense_results, sparse_results, kq) :
            combined = format_results(o, dense_results, sparse_results, kq, top_k)}

\* the lists a search can return when the prefetches find dense and sparse
SearchOutcomes(dense, sparse, kq, limit) ==
    {Ids(format_results(o, dense, sparse, kq, limit)) :
        o \in FusedOrders(dense, sparse, kq)}

\* C13: with dense_weight = 0.5 fusing (A, B) and fusing (B, A) return the same
\* ordered list, tied scores included; for any other dense_weight there are
\* lists A, B for which the two results differ whatever the index does.
C13_CommutativeOnlyAtHalf ==
    spc = "searched"
        => IF RatEq(dense_weight, <<1, 2>>)
           THEN \A kq \in ConsistentK :
                    SearchOutcomes(sparse_results, dense_results, kq, top_k)
                        = {Ids(combined)}
           ELSE \E A \in Rankings(top_k), B \in Rankings(top_k) :
                    \A kq \in NativeRRFConstants :
                        SearchOutcomes(A, B, kq, top_k)
                            \cap SearchOutcomes(B, A, kq, top_k) = {}

\* 0 < dense_weight < 1
StrictlyBetweenZeroAndOne(w) == RatLess(<<0, 1>>, w) /\ RatLess(w, <<1, 1>>)

\* C14: for dense_weight strictly between 0 and 1 and top_k >= 1, a candidate
\* at rank 1 in both the dense and the sparse list is the first entry of the
\* fused list.
C14_RankOneInBothIsFirst ==
    (/\ spc = "searched"
     /\ StrictlyBetweenZeroAndOne(dense_weight)
     /\ top_k >= 1
     /\ sparse_results # <<>>
     /\ dense_results # <<>>
     /\ dense_results[1] = sparse_results[1])
        => /\ combined # <<>>
           /\ combined[1].id = dense_results[1]

\* a search with other candidates in both lists behind the common first one
C14_Witness ==
    /\ spc = "searched"
    /\ StrictlyBetweenZeroAndOne(dense_weight)
    /\ Len(dense_results) >= 2
    /\ Len(sparse_results) >= 2
    /\ dense_results[1] = sparse_results[1]
    /\ dense_results[2] # sparse_results[2]
    /\ combined[1].id = dense_results[1]

----------------------------------------------------------------------------
(* Reranker.rerank (src/src/retrieval/reranker.py)                         *)

\* largest explicit top_k argument of Reranker.rerank
MaxRerankArg == 2

\* the results lists a caller passes: search results for distinct points
ResultLists ==
    {[i \in 1..Len(l) |->
         [id |-> l[i], score |-> <<1, 60 + i>>, payload |-> StoredPayload(l[i])]] :
     l \in AllRankings}

\* relevance scores the provider attaches
RerankScores == {<<1, 10>>, <<9, 10>>}

\* the index columns of a provider answer for n documents: distinct 0-based
\* indices, as many as the provider chooses to return
IndexLists(n) == {Restrict(o, m) : o \in Orderings(0..(n - 1)), m \in 0..n}

\* provider.rerank(query, documents): a list of {index, score}, or an
\* exception (CohereProvider.rerank logs it and raises it again)
RerankOutcomes(n) ==
    {[failed |-> TRUE, pairs |-> <<>>]}
        \cup {[failed |-> FALSE,
               pairs |-> [j \in 1..Len(il) |-> [index |-> il[j], score |-> sc[j]]]] :
              il \in IndexLists(n), sc \in [1..n -> RerankScores]}

\* top_k = top_k or settings.rerank_top_k
RerankLimit(s, tk) == PyOr(tk, s.rerank_top_k)

\* whether rerank gets as far as provider.rerank
CallsProvider(s, results, tk) ==
    results # <<>> /\ ~(Len(results) <= RerankLimit(s, tk))

\* original_result = results[index].copy(); original_result["rerank_score"] = score
WithRerankScore(result, score) == ("rerank_score" :> score) @@ result

\* step 3 of rerank: the loop over rerank_results[:top_k]
Reorder(results, rerank_results, limit) ==
    [j \in 1..Len(Restrict(rerank_results, limit)) |->
        WithRerankScore(results[rerank_results[j].index + 1],
                        rerank_results[j].score)]

\* rerank without the len(results) <= top_k shortcut
RerankAlwaysCalls(s, results, tk, outcome) ==
    IF results = <<>>
    THEN [raised |-> None, out |-> <<>>, calls |-> 0]
    ELSE IF outcome.failed
    THEN [raised |-> "ProviderError", out |-> <<>>, calls |-> 1]
    ELSE [raised |-> None,
          out |-> Reorder(results, outcome.pairs, RerankLimit(s, tk)),
          calls |-> 1]

\* Reranker.rerank(query, results, top_k); outcome is what provider.rerank does
\* if it is called
rerank(s, results, tk, outcome) ==
    IF results = <<>>
    THEN [raised |-> None, out |-> <<>>, calls |-> 0]
    ELSE IF Len(results) <= RerankLimit(s, tk)
    THEN [raised |-> None, out |-> results, calls |-> 0]
    ELSE IF outcome.failed
    THEN [raised |-> "ProviderError", out |-> <<>>, calls |-> 1]
    ELSE [raised |-> None,
          out |-> Reorder(results, outcome.pairs, RerankLimit(s, tk)),
          calls |-> 1]

RerankArgs == {NoneInt} \cup {IntArg(n) : n \in 0..MaxRerankArg}

\* the provider outcomes that matter to a call: none if it is not called
OutcomesFor(s, results, tk) ==
    IF CallsProvider(s, results, tk)
    THEN RerankOutcomes(Len(results))
    ELSE {[failed |-> FALSE, pairs |-> <<>>]}

Rerank(results, tk, outcome) ==
    /\ rpc = "idle"
    /\ LET r == rerank(settings, results, tk, outcome)
       IN  /\ rr_raised' = r.raised
           /\ reranked' = r.out
           /\ rr_calls' = r.calls
           /\ rr_answer' = IF r.calls = 0 THEN [failed |-> FALSE, pairs |-> <<>>]
                           ELSE outcome
    /\ rr_results' = results
    /\ rr_top_k' = tk
    /\ rpc' = "reranked"
    /\ UNCHANGED <<settings, chunker, pc, splitVars, docVars, searchVars, genVars, queryVars, laterVars>>

\* the caller drops the result
RerankReturn ==
    /\ rpc = "reranked"
    /\ rpc' = "idle"
    /\ rr_results' = <<>>
    /\ rr_top_k' = NoneInt
    /\ rr_answer' = [failed |-> FALSE, pairs |-> <<>>]
    /\ rr_calls' = 0
    /\ rr_raised' = None
    /\ reranked' = <<>>
    /\ UNCHANGED <<settings, chunker, pc, splitVars, docVars, searchVars, genVars, queryVars, laterVars>>

NextRerank ==
    \/ rpc = "idle" /\ \E results \in ResultLists, tk \in RerankArgs :
           \E outcome \in OutcomesFor(settings, results, tk) :
               Rerank(results, tk, outcome)
    \/ RerankReturn

\* reranking: Reranker.rerank
SpecRerank == Init /\ [][NextRerank]_vars

----------------------------------------------------------------------------
(* Claims about reranking                                                  *)

\* the top_k argument as a number: settings.rerank_top_k when it is None
TopKOf(tk) == IF tk = NoneInt THEN settings.rerank_top_k ELSE tk[1]

\* C15: rerank called with len(candidates) <= top_k returns the candidates
\* unchanged and in their original order and makes no call to the provider;
\* an empty candidate list returns an empty list, also without a call.
C15_FewCandidatesReturnedUnchanged ==
    (rpc = "reranked" /\ Len(rr_results) <= TopKOf(rr_top_k))
        => /\ reranked = rr_results
           /\ rr_calls = 0
           /\ rr_raised = None

\* a non-empty candidate list no longer than an explicit top_k came back
C15_Witness ==
    /\ rpc = "reranked"
    /\ rr_top_k # NoneInt
    /\ Len(rr_results) = 2
    /\ Len(rr_results) <= TopKOf(rr_top_k)
    /\ reranked = rr_results

\* C16: rerank called with len(candidates) > top_k returns the candidates named
\* by the first top_k (index, score) pairs of the provider's answer, in the
\* provider's order; the j-th output carries the unchanged id and payload of
\* candidates[index_j] and the provider's score_j, and the output length is
\* min(top_k, number of pairs returned).
C16_RerankedFollowsProvider ==
    (/\ rpc = "reranked"
     /\ Len(rr_results) > TopKOf(rr_top_k)
     /\ rr_raised = None)
        => LET n == IF Len(rr_answer.pairs) < TopKOf(rr_top_k)
                    THEN Len(rr_answer.pairs) ELSE TopKOf(rr_top_k)
           IN  /\ Len(reranked) = n
               /\ \A j \in 1..n :
                      /\ reranked[j].id = rr_results[rr_answer.pairs[j].index + 1].id
                      /\ reranked[j].payload
                             = rr_results[rr_answer.pairs[j].index + 1].payload
                      /\ reranked[j].rerank_score = rr_answer.pairs[j].score

----------------------------------------------------------------------------
(* ResponseGenerator.generate (src/src/generation/generator.py),           *)
(* CitationFormatter (citations.py), prompts.py                            *)

\* the values of the Language enum; a text is a sequence of characters, a
\* fixed message or template one element that names it
Languages == {"en", "ar", "unknown"}

NO_ANSWER_ENGLISH == <<"I don't have information about that in the uploaded documents.">>
NO_ANSWER_ARABIC == <<"NO_ANSWER_ARABIC">>
ENGLISH_SYSTEM_PROMPT == <<"ENGLISH_SYSTEM_PROMPT">>
ARABIC_SYSTEM_PROMPT == <<"ARABIC_SYSTEM_PROMPT">>

get_no_answer_message(language) ==
    IF language = "ar" THEN NO_ANSWER_ARABIC ELSE NO_ANSWER_ENGLISH

\* the template with {context} at its end
get_system_prompt(language, context) ==
    IF language = "ar" THEN ARABIC_SYSTEM_PROMPT \o context
    ELSE ENGLISH_SYSTEM_PROMPT \o context

\* sep.join(parts)
RECURSIVE Join(_, _)
Join(sep, parts) ==
    IF parts = <<>> THEN <<>>
    ELSE IF Len(parts) = 1 THEN parts[1]
    ELSE parts[1] \o sep \o Join(sep, Tail(parts))

\* f"[{i}] "
CitationMark(i) == <<"[">> \o DecimalStr(i) \o <<"]", " ">>

\* f", Page {page_num}" and its Arabic form
PageSuffix(language, page_num) ==
    IF language = "ar"
    THEN <<ArabicComma, " ", "U+0635", "U+0641", "U+062D", "U+0629", " ">>
             \o DecimalStr(page_num)
    ELSE <<",", " ", "P", "a", "g", "e", " ">> \o DecimalStr(page_num)

\* "Sources:\n" and its Arabic form
SourcesHeader(language) ==
    IF language = "ar"
    THEN <<"U+0627", "U+0644", "U+0645", "U+0635", "U+0627", "U+062F", "U+0631",
           ":", "\n">>
    ELSE <<"S", "o", "u", "r", "c", "e", "s", ":", "\n">>

\* one entry of sources_parts; `if page_num:` is false for None and for 0
SourcePart(i, payload, language) ==
    CitationMark(i) \o payload.document_name
        \o (IF payload.page_number # NoneInt /\ payload.page_number # IntArg(0)
            THEN PageSuffix(language, payload.page_number[1])
            ELSE <<>>)

\* the loop of format_context with enumerate(results) in place of
\* enumerate(results, start=1)
FormatContextFromZero(results, language) ==
    IF results = <<>> THEN [context |-> <<>>, sources |-> <<>>]
    ELSE [context |-> Join(<<"\n", "\n">>,
                           [i \in 1..Len(results) |->
                               CitationMark(i - 1) \o results[i].payload.content]),
          sources |-> SourcesHeader(language)
                          \o Join(<<"\n">>,
                                  [i \in 1..Len(results) |->
                                      SourcePart(i - 1, results[i].payload, language)])]

\* CitationFormatter.format_context (language "en") and format_context_arabic
format_context(results, language) ==
    IF results = <<>> THEN [context |-> <<>>, sources |-> <<>>]
    ELSE [context |-> Join(<<"\n", "\n">>,
                           [i \in 1..Len(results) |->
                               CitationMark(i) \o results[i].payload.content]),
          sources |-> SourcesHeader(language)
                          \o Join(<<"\n">>,
                                  [i \in 1..Len(results) |->
                                      SourcePart(i, results[i].payload, language)])]

Separator == <<"\n", "\n", "-", "-", "-", "\n", "\n">>

\* CitationFormatter.add_sources_to_answer
add_sources_to_answer(answer, sources) ==
    IF sources = <<>> THEN answer ELSE answer \o Separator \o sources

\* result.get("rerank_score", result.get("score", 0.0))
ScoreOf(result) ==
    IF "rerank_score" \in DOMAIN result THEN result.rerank_score ELSE result.score

\* what pydantic accepts: RetrievedChunk.score in [0, 1], DocumentChunk.content
\* of at least one character, a payload language that is a Language value
ValidRetrievedChunk(result) ==
    /\ ~RatLess(ScoreOf(result), <<0, 1>>)
    /\ ~RatLess(<<1, 1>>, ScoreOf(result))
    /\ Len(result.payload.content) >= 1
    /\ result.payload.language \in Languages

\* ResponseGenerator._convert_to_retrieved_chunks
convert_to_retrieved_chunks(results) ==
    [i \in 1..Len(results) |->
        [chunk |-> [chunk_id    |-> results[i].payload.chunk_id,
                    content     |-> results[i].payload.content,
                    metadata    |-> [document_name |-> results[i].payload.document_name,
                                     page_number   |-> results[i].payload.page_number,
                                     language      |-> results[i].payload.language,
                                     file_type     |-> results[i].payload.file_type],
                    chunk_index |-> results[i].payload.chunk_index],
         score |-> ScoreOf(results[i]),
         rank  |-> i]]

\* GenerationResult(answer, sources, language=Language(language), has_answer)
GenerationResult(answer, sources, language, has_answer) ==
    IF language \in Languages
    THEN [raised |-> None,
          result |-> <<[answer |-> answer, sources |-> sources,
                        language |-> language, has_answer |-> has_answer]>>]
    ELSE [raised |-> "ValueError", result |-> <<>>]

\* ResponseGenerator._create_no_answer_result
create_no_answer_result(language) ==
    GenerationResult(get_no_answer_message(language), <<>>, language, FALSE)

\* steps 1 to 4 of generate and the construction of the result; outcome is what
\* provider.generate_text does (no try/except around it)
GenerateSteps(results, language, outcome) ==
    LET fc     == format_context(results, language)
        prompt == get_system_prompt(language, fc.context)
    IN  IF outcome.failed
        THEN [raised |-> "ProviderError", result |-> <<>>, calls |-> 1,
              prompt |-> prompt]
        ELSE IF \E i \in 1..Len(results) : ~ValidRetrievedChunk(results[i])
        THEN [raised |-> "ValidationError", result |-> <<>>, calls |-> 1,
              prompt |-> prompt]
        ELSE LET r == GenerationResult(add_sources_to_answer(outcome.text, fc.sources),
                                       convert_to_retrieved_chunks(results),
                                       language, TRUE)
             IN  [raised |-> r.raised, result |-> r.result, calls |-> 1,
                  prompt |-> prompt]

\* ResponseGenerator._create_error_result
create_error_result(language) ==
    GenerationResult(IF language = "ar" THEN <<"ERROR_MESSAGE_ARABIC">>
                     ELSE <<"ERROR_MESSAGE_ENGLISH">>,
                     <<>>, language, FALSE)

\* generate with the handler `except Exception: return self._create_error_result(...)`
\* around step 3
GenerateAbsorbingFailure(results, language, outcome) ==
    IF results = <<>>
    THEN LET r == create_no_answer_result(language)
         IN  [raised |-> r.raised, result |-> r.result, calls |-> 0, prompt |-> <<>>]
    ELSE IF outcome.failed
    THEN [raised |-> None, result |-> create_error_result(language).result, calls |-> 1,
          prompt |-> get_system_prompt(language, format_context(results, language).context)]
    ELSE GenerateSteps(results, language, outcome)

\* generate without its `if not results` test
GenerateWithoutEmptyTest(results, language, outcome) ==
    GenerateSteps(results, language, outcome)

\* ResponseGenerator.generate(query, results, language, chat_history)
generate(results, language, outcome) ==
    IF results = <<>>
    THEN LET r == create_no_answer_result(language)
         IN  [raised |-> r.raised, result |-> r.result, calls |-> 0, prompt |-> <<>>]
    ELSE GenerateSteps(results, language, outcome)

\* answers of the generation provider
ProviderTexts == {<<>>, <<"o", "k">>}

\* provider.generate_text: a text, or an exception
GenerateOutcomes ==
    {[failed |-> TRUE, text |-> <<>>]}
        \cup {[failed |-> FALSE, text |-> t] : t \in ProviderTexts}

\* the results a caller passes to generate: search results, reranked or not
GenerateResultLists ==
    ResultLists
        \cup {[i \in 1..Len(r) |-> WithRerankScore(r[i], <<9, 10>>)] : r \in ResultLists}

Generate(results, language, outcome) ==
    /\ gpc = "idle"
    /\ LET g == generate(results, language, outcome)
       IN  /\ gen_raised' = g.raised
           /\ gen_result' = g.result
           /\ gen_calls' = g.calls
           /\ gen_prompt' = g.prompt
           /\ gen_answer' = IF g.calls = 0 THEN [failed |-> FALSE, text |-> <<>>]
                            ELSE outcome
    /\ gen_results' = results
    /\ gen_language' = language
    /\ gpc' = "generated"
    /\ UNCHANGED <<settings, chunker, pc, splitVars, docVars, searchVars, rerankVars, queryVars, laterVars>>

\* the caller drops the result
GenerateReturn ==
    /\ gpc = "generated"
    /\ gpc' = "idle"
    /\ gen_results' = <<>>
    /\ gen_language' = "en"
    /\ gen_prompt' = <<>>
    /\ gen_answer' = [failed |-> FALSE, text |-> <<>>]
    /\ gen_calls' = 0
    /\ gen_raised' = None
    /\ gen_result' = <<>>
    /\ UNCHANGED <<settings, chunker, pc, splitVars, docVars, searchVars, rerankVars, queryVars, laterVars>>

NextGenerate ==
    \/ gpc = "idle" /\ \E results \in GenerateResultLists, language \in Languages :
           \E outcome \in GenerateOutcomes : Generate(results, language, outcome)
    \/ GenerateReturn

\* answer composition: ResponseGenerator.generate
SpecGenerate == Init /\ [][NextGenerate]_vars

----------------------------------------------------------------------------
(* Claims about answer composition                                         *)

\* C18: generate called with an empty candidate list never calls the
\* generation provider and returns a result with has_answer = false, no
\* sources and the fixed no-answer message of the requested language: the
\* Arabic text for "ar", the English text otherwise.
C18_EmptyCandidatesGiveNoAnswer ==
    (gpc = "generated" /\ gen_results = <<>>)
        => /\ gen_calls = 0
           /\ gen_raised = None
           /\ Len(gen_result) = 1
           /\ gen_result[1].has_answer = FALSE
           /\ gen_result[1].sources = <<>>
           /\ gen_result[1].answer = IF gen_language = "ar" THEN NO_ANSWER_ARABIC
                                     ELSE NO_ANSWER_ENGLISH

\* an empty candidate list answered in Arabic
C18_Witness ==
    /\ gpc = "generated"
    /\ gen_results = <<>>
    /\ gen_language = "ar"
    /\ Len(gen_result) = 1
    /\ gen_result[1].answer = NO_ANSWER_ARABIC

\* the text "[i] " followed by t
Numbered(i, t) == <<"[">> \o DecimalStr(i) \o <<"]", " ">> \o t

\* whether text t starts at position p of text s
OccursAtPosition(s, p, t) ==
    /\ p + Len(t) - 1 <= Len(s)
    /\ SubSeq(s, p, p + Len(t) - 1) = t

\* the number of characters of the texts before entry i when entries are joined
\* by a separator of sepLen characters
OffsetOf(entries, i, sepLen) ==
    LET RECURSIVE Sum(_)
        Sum(j) == IF j = 0 THEN 0 ELSE Len(entries[j]) + sepLen + Sum(j - 1)
    IN  Sum(i - 1)

----------------------------------------------------------------------------
(* RAGOrchestrator.query (src/src/orchestrator/rag_pipeline.py)            *)

\* largest number of points in the vector store during a query
MaxStored == 2

\* the questions asked: blank, too short for detection, long enough, two letters
\* around a blank
Questions == {<<>>, <<"a">>, <<"a", "a", "a">>, <<".", ".", ".">>, <<"a", " ", "a">>}

NO_DOCUMENTS_ENGLISH ==
    <<"No documents have been uploaded yet. Please upload a document first.">>
NO_DOCUMENTS_ARABIC == <<"NO_DOCUMENTS_ARABIC">>

\* RAGOrchestrator._no_documents_response
no_documents_response(language) ==
    GenerationResult(IF language = "ar" THEN NO_DOCUMENTS_ARABIC
                     ELSE NO_DOCUMENTS_ENGLISH,
                     <<>>, language, FALSE)

\* what the prefetches can find among n stored points
StoredRankings(n, limit) ==
    {l \in Rankings(limit) : \A i \in 1..Len(l) : l[i] <= n}

\* no exception
NoException == [error |-> None, raised_in |-> "none"]

\* an exception with the call that raised it (its traceback)
Exception(error, call) == [error |-> error, raised_in |-> call]

\* the variables of the chunker, the searcher, the reranker and the generator
notQueryVars == <<settings, chunker, pc, splitVars, docVars, searchVars, rerankVars, genVars,
                  laterVars>>

\* the caller invokes query(question) while the store holds n points
QueryCall(question, n) ==
    /\ qpc = "idle"
    /\ q_question' = question
    /\ q_total_chunks' = n
    /\ qpc' = "detect"
    /\ UNCHANGED <<q_language, q_search_results, q_reranked, q_result, q_raised, q_failed,
                   q_sparse_query, q_dense, q_sparse, q_calls>>
    /\ UNCHANGED notQueryVars

\* step 1: language = self.language_detector.detect(question)
QueryDetect(detected) ==
    /\ qpc = "detect"
    /\ q_calls' = Append(q_calls, "detect")
                  \o (IF ModelInvoked(q_question) THEN <<"langdetect.detect">> ELSE <<>>)
    /\ LET d == detect(q_question, detected)
       IN  IF d.raised # None
           THEN /\ q_raised' = Exception(d.raised, "detect")
                /\ qpc' = "done"
                /\ UNCHANGED q_language
           ELSE /\ q_language' = d.language
                /\ qpc' = "stats"
                /\ UNCHANGED q_raised
    /\ UNCHANGED <<q_question, q_total_chunks, q_search_results, q_reranked, q_result,
                   q_failed, q_sparse_query, q_dense, q_sparse>>
    /\ UNCHANGED notQueryVars

\* step 2: stats = self.vector_store.get_stats(); ok is whether the store answers
QueryStats(ok) ==
    /\ qpc = "stats"
    /\ q_calls' = Append(q_calls, "get_stats")
    /\ IF ~ok
       THEN /\ q_raised' = Exception("StoreError", "get_stats")
            /\ q_failed' = "get_stats"
            /\ qpc' = "done"
            /\ UNCHANGED q_result
       ELSE IF q_total_chunks = 0
       THEN /\ q_result' = no_documents_response(q_language).result
            /\ q_raised' = Exception(no_documents_response(q_language).raised, "none")
            /\ qpc' = "done"
            /\ UNCHANGED q_failed
       ELSE /\ qpc' = "search"
            /\ UNCHANGED <<q_result, q_raised, q_failed>>
    /\ UNCHANGED <<q_question, q_total_chunks, q_language, q_search_results, q_reranked,
                   q_sparse_query, q_dense, q_sparse>>
    /\ UNCHANGED notQueryVars

\* step 3, HybridSearcher.search: dense_query = self.embedder.embed_dense_query(query);
\* embedded is whether provider.embed_query answers
QueryEmbedDense(embedded) ==
    /\ qpc = "search"
    /\ q_calls' = Append(q_calls, "embed_dense_query")
    /\ IF ~embedded
       THEN /\ q_raised' = Exception("ProviderError", "embed_dense_query")
            /\ q_failed' = "embed_dense_query"
            /\ qpc' = "done"
       ELSE /\ qpc' = "embed_sparse"
            /\ UNCHANGED <<q_raised, q_failed>>
    /\ UNCHANGED <<q_question, q_total_chunks, q_language, q_search_results, q_reranked,
                   q_result, q_sparse_query, q_dense, q_sparse>>
    /\ UNCHANGED notQueryVars

\* the sparse vectors embed_sparse_query returns: {"indices": [], "values": []}
\* when the model yields no embedding or no term of the query, or a vector of terms
SparseQueries == {"empty", "terms"}

\* step 3, HybridSearcher.search: sparse_query = self.embedder.embed_sparse_query(query)
QueryEmbedSparse(sparse_query) ==
    /\ qpc = "embed_sparse"
    /\ q_calls' = Append(q_calls, "embed_sparse_query")
    /\ q_sparse_query' = sparse_query
    /\ qpc' = "fuse"
    /\ UNCHANGED <<q_question, q_total_chunks, q_language, q_search_results, q_reranked,
                   q_result, q_raised, q_failed, q_dense, q_sparse>>
    /\ UNCHANGED notQueryVars

\* step 3, HybridSearcher.search: combined = self.vector_store.search_hybrid(dense_query,
\* sparse_query, top_k=search_limit); searched is whether query_points answers, and an
\* empty sparse vector finds nothing
QueryFuse(searched, dense, sparse, kq, order) ==
    /\ qpc = "fuse"
    /\ q_sparse_query = "empty" => sparse = <<>>
    /\ q_calls' = Append(q_calls, "search_hybrid")
    /\ IF ~searched
       THEN /\ q_raised' = Exception("StoreError", "search_hybrid")
            /\ q_failed' = "search_hybrid"
            /\ qpc' = "done"
            /\ UNCHANGED <<q_search_results, q_dense, q_sparse>>
       ELSE /\ q_search_results' =
                   <<format_results(order, dense, sparse, kq,
                                    PyOr(IntArg(settings.top_k_retrieval),
                                         settings.top_k_retrieval))>>
            /\ q_dense' = <<dense>>
            /\ q_sparse' = <<sparse>>
            /\ qpc' = "rerank"
            /\ UNCHANGED <<q_raised, q_failed>>
    /\ UNCHANGED <<q_question, q_total_chunks, q_language, q_reranked, q_result,
                   q_sparse_query>>
    /\ UNCHANGED notQueryVars

\* step 4: reranked_results = self.reranker.rerank(question, search_results,
\* settings.rerank_top_k) if search_results else []
QueryRerank(outcome) ==
    /\ qpc = "rerank"
    /\ LET r == IF q_search_results[1] # <<>>
                THEN rerank(settings, q_search_results[1],
                            IntArg(settings.rerank_top_k), outcome)
                ELSE [raised |-> None, out |-> <<>>, calls |-> 0]
       IN  /\ IF r.raised # None
              THEN /\ q_raised' = Exception(r.raised, "rerank")
                   /\ qpc' = "done"
                   /\ UNCHANGED q_reranked
              ELSE /\ q_reranked' = r.out
                   /\ qpc' = "generate"
                   /\ UNCHANGED q_raised
           /\ q_failed' = IF r.calls = 1 /\ outcome.failed THEN "rerank" ELSE q_failed
           /\ q_calls' = q_calls
                  \o (IF q_search_results[1] # <<>> THEN <<"rerank">> ELSE <<>>)
                  \o (IF r.calls = 1 THEN <<"provider.rerank">> ELSE <<>>)
    /\ UNCHANGED <<q_question, q_total_chunks, q_language, q_search_results, q_result,
                   q_sparse_query, q_dense, q_sparse>>
    /\ UNCHANGED notQueryVars

\* step 5: result = self.generator.generate(question, reranked_results, lang_code,
\* chat_history); return result
QueryGenerate(outcome) ==
    /\ qpc = "generate"
    /\ LET g == generate(q_reranked, q_language, outcome)
       IN  /\ q_result' = g.result
           /\ q_raised' = IF g.raised = None THEN NoException
                          ELSE Exception(g.raised,
                                         IF g.raised = "ProviderError"
                                         THEN "generate_text" ELSE "generate")
           /\ q_failed' = IF g.calls = 1 /\ outcome.failed THEN "generate_text"
                          ELSE q_failed
           /\ q_calls' = q_calls \o <<"generate">>
                  \o (IF g.calls = 1 THEN <<"generate_text">> ELSE <<>>)
    /\ qpc' = "done"
    /\ UNCHANGED <<q_question, q_total_chunks, q_language, q_search_results, q_reranked,
                   q_sparse_query, q_dense, q_sparse>>
    /\ UNCHANGED notQueryVars

\* the caller drops the result or the exception
QueryReturn ==
    /\ qpc = "done"
    /\ qpc' = "idle"
    /\ q_question' = <<>>
    /\ q_total_chunks' = 0
    /\ q_language' = "unknown"
    /\ q_search_results' = <<>>
    /\ q_reranked' = <<>>
    /\ q_result' = <<>>
    /\ q_raised' = NoException
    /\ q_failed' = "none"
    /\ q_sparse_query' = "none"
    /\ q_dense' = <<>>
    /\ q_sparse' = <<>>
    /\ q_calls' = <<>>
    /\ UNCHANGED notQueryVars

\* the provider outcomes that matter to step 4
QueryRerankOutcomes ==
    IF q_search_results # <<>>
    THEN OutcomesFor(settings, q_search_results[1], IntArg(settings.rerank_top_k))
    ELSE {[failed |-> FALSE, pairs |-> <<>>]}

\* the provider outcomes that matter to step 5
QueryGenerateOutcomes ==
    IF q_reranked = <<>> THEN {[failed |-> FALSE, text |-> <<>>]} ELSE GenerateOutcomes

NextQuery ==
    \/ qpc = "idle" /\ \E question \in Questions, n \in 0..MaxStored : QueryCall(question, n)
    \/ qpc = "detect" /\ \E detected \in DetectChoices(q_question) : QueryDetect(detected)
    \/ qpc = "stats" /\ \E ok \in BOOLEAN : QueryStats(ok)
    \/ qpc = "search" /\ \E embedded \in BOOLEAN : QueryEmbedDense(embedded)
    \/ qpc = "embed_sparse" /\ \E sparse_query \in SparseQueries :
           QueryEmbedSparse(sparse_query)
    \/ qpc = "fuse" /\ \E kq \in NativeRRFConstants :
           \E dense \in StoredRankings(q_total_chunks, settings.top_k_retrieval),
              sparse \in StoredRankings(q_total_chunks, settings.top_k_retrieval) :
               \E order \in FusedOrders(dense, sparse, kq), searched \in BOOLEAN :
                   QueryFuse(searched, dense, sparse, kq, order)
    \/ qpc = "rerank" /\ \E outcome \in QueryRerankOutcomes : QueryRerank(outcome)
    \/ qpc = "generate" /\ \E outcome \in QueryGenerateOutcomes : QueryGenerate(outcome)
    \/ QueryReturn

\* question answering: RAGOrchestrator.query
SpecQuery == Init /\ [][NextQuery]_vars

----------------------------------------------------------------------------
(* Claims about question answering                                         *)

C19_NoCandidatesNeverRaises ==
    (/\ qpc = "done"
     /\ q_failed = "none"
     /\ q_total_chunks = 0 \/ q_search_results = << <<>> >>)
        => /\ q_raised = NoException
           /\ Len(q_result) = 1
           /\ q_result[1].has_answer = FALSE
           /\ q_result[1].language = q_language

\* the fields by which a result returned by query could say that it rests on one
\* side only; GenerationResult has answer, sources, language and has_answer
DegradedFlags == {"degraded", "partial", "warning"}

\* C21: within one query the fusion starts only after the dense and the sparse
\* query embedding have both completed, and a query whose sparse side is missing
\* (the sparse model gave no embedding) fails or returns a result flagged as
\* degraded; the missing side is never fused as if it were a complete empty list.
C21_MissingSideFailsOrIsFlagged ==
    /\ \A k \in 1..Len(q_calls) :
           q_calls[k] = "search_hybrid"
               => /\ k > 2
                  /\ q_calls[k - 2] = "embed_dense_query"
                  /\ q_calls[k - 1] = "embed_sparse_query"
    /\ (qpc = "done" /\ q_sparse_query = "empty")
           => \/ q_raised.error # None
              \/ /\ Len(q_result) = 1
                 /\ DOMAIN q_result[1] \cap DegradedFlags # {}

\* C22: LanguageDetector.detect returns UNKNOWN, without invoking the detection
\* model, for every input with fewer than 3 characters that are not whitespace,
\* whitespace inside the text not being counted.
C22_ShortInputIsUnknownWithoutModel ==
    (qpc \notin {"idle", "detect"} /\ Len(NonWhitespace(q_question)) < 3)
        => /\ \A k \in 1..Len(q_calls) : q_calls[k] # "langdetect.detect"
           /\ q_raised.raised_in # "detect"
           /\ q_language = "unknown"

----------------------------------------------------------------------------
(* The primary language of a document: IngestionPipeline                   *)
(* ._detect_primary_language                                               *)

\* the longest list of chunks passed to _detect_primary_language
MaxChunks == 6

\* all the state but that of _detect_primary_language
notPrimaryVars == <<settings, chunker, pc, splitVars, docVars, searchVars, rerankVars,
                    genVars, queryVars, storeVars, ingestVars, convVars>>

\* sample_size = min(5, len(chunks))
PrimarySample == 5

\* the keys of lang_counts, in the order the dict literal inserts them
LanguageKeys == <<"en", "ar", "unknown">>

\* the loop `for chunk in chunks[:sample_size]` from chunk i on: lang =
\* self.language_detector.detect(chunk.content); lang_counts[lang] += 1
RECURSIVE CountLanguages(_, _, _, _, _)
CountLanguages(chunks, det, i, sample_size, acc) ==
    IF i > sample_size THEN acc
    ELSE LET d == detect(chunks[i].content, det[i])
         IN  IF d.raised # None
             THEN [acc EXCEPT !.raised = d.raised, !.calls = @ + 1]
             ELSE CountLanguages(chunks, det, i + 1, sample_size,
                      [acc EXCEPT !.lang_counts[d.language] = @ + 1, !.calls = @ + 1])

\* max(lang_counts, key=lang_counts.get) from key i on: the first key, in the
\* order of the dict, whose count no later key exceeds
RECURSIVE MaxKey(_, _, _)
MaxKey(lang_counts, i, best) ==
    IF i > Len(LanguageKeys) THEN best
    ELSE MaxKey(lang_counts, i + 1,
                IF lang_counts[LanguageKeys[i]] > lang_counts[best]
                THEN LanguageKeys[i] ELSE best)

\* IngestionPipeline._detect_primary_language; det[i] is what the langdetect
\* model does on the content of chunk i, calls the number of calls of detect
detect_primary_language(chunks, det) ==
    IF chunks = <<>> THEN [raised |-> None, language |-> "unknown", calls |-> 0]
    ELSE LET sample_size == IF PrimarySample < Len(chunks) THEN PrimarySample
                            ELSE Len(chunks)
             c == CountLanguages(chunks, det, 1, sample_size,
                      [raised |-> None, calls |-> 0,
                       lang_counts |-> [l \in {"en", "ar", "unknown"} |-> 0]])
         IN  IF c.raised # None
             THEN [raised |-> c.raised, language |-> None, calls |-> c.calls]
             ELSE [raised |-> None, language |-> MaxKey(c.lang_counts, 2, LanguageKeys[1]),
                   calls |-> c.calls]

\* a chunk whose content is too short for the model, and a chunk on whose content
\* the model answers en, ar or raises (any other answer gives the tag of en)
ChunkCases ==
    {[content |-> <<"a">>, detected |-> "en"]}
        \cup {[content |-> <<"a", "a", "a">>, detected |-> o] :
                 o \in DetectOutcomes \ {"fr"}}

\* the lists of chunks passed to _detect_primary_language
PrimaryInputs == UNION {[1..n -> ChunkCases] : n \in 0..MaxChunks}

\* the caller invokes _detect_primary_language(chunks)
PrimaryCall(chunks, det) ==
    /\ plpc = "idle"
    /\ pl_chunks' = chunks
    /\ pl_det' = det
    /\ pl_out' = detect_primary_language(chunks, det)
    /\ plpc' = "done"
    /\ UNCHANGED notPrimaryVars

\* the caller drops the result
PrimaryReturn ==
    /\ plpc = "done"
    /\ pl_chunks' = <<>>
    /\ pl_det' = <<>>
    /\ pl_out' = [raised |-> None, language |-> "unknown", calls |-> 0]
    /\ plpc' = "idle"
    /\ UNCHANGED notPrimaryVars

NextPrimary ==
    \/ plpc = "idle" /\ \E cases \in PrimaryInputs :
           PrimaryCall([i \in 1..Len(cases) |-> [content |-> cases[i].content]],
                       [i \in 1..Len(cases) |-> cases[i].detected])
    \/ PrimaryReturn

\* the primary language of a document
SpecPrimary == Init /\ [][NextPrimary]_vars

----------------------------------------------------------------------------
(* Claims about the primary language                                       *)

\* the tag detect gives chunk i of the call
TagOf(i) == detect(pl_chunks[i].content, pl_det[i]).language

\* the number of chunks among the first n of the call that have tag l
TagCount(l, n) == Cardinality({i \in 1..n : TagOf(i) = l})

\* the place of tag l in the order ENGLISH, ARABIC, UNKNOWN
TagPlace(l) == CHOOSE k \in 1..3 : <<"en", "ar", "unknown">>[k] = l

\* C23: _detect_primary_language classifies only the first min(5, n) chunks and
\* returns the tag with the highest count among them, a tie going to the first of
\* ENGLISH, ARABIC, UNKNOWN; chunks after the fifth never change the outcome; an
\* empty list gives UNKNOWN.
C23_PrimaryLanguageOfFirstFive ==
    plpc = "done"
        => LET n == IF Len(pl_chunks) < 5 THEN Len(pl_chunks) ELSE 5
           IN  /\ pl_out = detect_primary_language(SubSeq(pl_chunks, 1, n),
                                                   SubSeq(pl_det, 1, n))
               /\ pl_out.raised = None
               /\ pl_out.calls = n
               /\ pl_chunks # <<>>
                      => \A m \in {"en", "ar", "unknown"} :
                             \/ TagCount(pl_out.language, n) > TagCount(m, n)
                             \/ /\ TagCount(pl_out.language, n) = TagCount(m, n)
                                /\ TagPlace(pl_out.language) <= TagPlace(m)
               /\ pl_chunks = <<>> => pl_out.language = "unknown"

----------------------------------------------------------------------------
(* Claims about the construction of the chunker                            *)

\* C24: a TextChunker constructed with an explicit overlap of 0 operates with
\* overlap 0 (_add_overlap and _force_split read self.overlap), whatever the
\* overlap default of the settings is.
C24_ExplicitZeroOverlapIsKept ==
    [][\A chunk_size \in SizeArgs :
           (pc = "new" /\ pc' = "ready"
                /\ chunker' = TextChunkerInit(chunk_size, IntArg(0)))
               => chunker'.overlap = 0]_pc

----------------------------------------------------------------------------
(* Claims about the document identifier                                    *)

\* C25: all chunks returned by one chunk_document call carry the same
\* document_id in their metadata (chunks of calls for different documents carry
\* different ones).
C25_OneDocumentOneId ==
    (pc = "document" /\ raised = None)
        => \A i, j \in 1..Len(doc_chunks) :
               doc_chunks[i].document_id = doc_chunks[j].document_id

----------------------------------------------------------------------------
(* The vector store: VectorStore.add_chunks and clear                      *)

\* the most chunks passed to one add_chunks call
MaxBatch == 2

\* the most add_chunks calls between two creations of the collection
MaxCalls == 3

\* the callers of add_chunks: two ingestions
Callers == {"A", "B"}

\* all the state but that of the vector store
notStoreVars == <<settings, chunker, pc, splitVars, docVars, searchVars, rerankVars,
                  genVars, queryVars, primaryVars, ingestVars, convVars>>

\* an add_chunks call that has not started
NoCall == [pc |-> "idle", chunks |-> <<>>, i |-> 0, points |-> <<>>]

\* _get_current_count: info.points_count
get_current_count == Cardinality(DOMAIN points)

\* a point id that ignores the count of the collection
PointIdFromZero(i, count) == i

\* id=i + self._get_current_count(), with i counted from 0
PointId(i, count) == i + count

\* caller p invokes add_chunks with n chunks; `if not chunks: return 0`
AddChunksCall(p, n) ==
    /\ ac[p].pc = "idle"
    /\ serial < MaxCalls
    /\ serial' = serial + 1
    /\ ac' = [ac EXCEPT ![p] =
                 [pc |-> IF n = 0 THEN "return" ELSE "loop",
                  chunks |-> [k \in 1..n |-> <<serial + 1, k - 1>>],
                  i |-> 0, points |-> <<>>]]
    /\ UNCHANGED <<points, added>>
    /\ UNCHANGED notStoreVars

\* one turn of `for i, chunk in enumerate(chunks)`: the point of chunk i, its id
\* read from the collection's count at this moment, is appended to points
AddChunksLoop(p) ==
    /\ ac[p].pc = "loop"
    /\ LET i     == ac[p].i
           point == [id |-> PointId(i, get_current_count), chunk |-> ac[p].chunks[i + 1]]
       IN  ac' = [ac EXCEPT ![p].points = Append(@, point),
                            ![p].i = i + 1,
                            ![p].pc = IF i + 1 = Len(ac[p].chunks) THEN "upsert"
                                      ELSE "loop"]
    /\ UNCHANGED <<points, added, serial>>
    /\ UNCHANGED notStoreVars

\* what upsert leaves in collection coll: each point of batch at its id, the last
\* of two points of one id, over whatever had that id
Upserted(coll, batch) ==
    LET ids == {batch[k].id : k \in 1..Len(batch)}
    IN  [id \in DOMAIN coll \cup ids |->
            IF id \in ids
            THEN batch[CHOOSE k \in 1..Len(batch) :
                           /\ batch[k].id = id
                           /\ \A m \in k + 1..Len(batch) : batch[m].id # id].chunk
            ELSE coll[id]]

\* self.client.upsert(collection_name, points)
AddChunksUpsert(p) ==
    /\ ac[p].pc = "upsert"
    /\ points' = Upserted(points, ac[p].points)
    /\ ac' = [ac EXCEPT ![p].pc = "return"]
    /\ UNCHANGED <<added, serial>>
    /\ UNCHANGED notStoreVars

\* return len(points) (return 0 for no chunks)
AddChunksReturn(p) ==
    /\ ac[p].pc = "return"
    /\ added' = added \cup {ac[p].chunks[k] : k \in 1..Len(ac[p].chunks)}
    /\ ac' = [ac EXCEPT ![p] = NoCall]
    /\ UNCHANGED <<points, serial>>
    /\ UNCHANGED notStoreVars

\* clear: delete_collection and _ensure_collection, called while no add_chunks
\* call is in progress
Clear ==
    /\ \A p \in Callers : ac[p].pc = "idle"
    /\ points' = <<>>
    /\ added' = {}
    /\ serial' = 0
    /\ UNCHANGED ac
    /\ UNCHANGED notStoreVars

\* no other caller is inside add_chunks
OneAtATime(p) == \A o \in Callers \ {p} : ac[o].pc = "idle"

NextStore ==
    \/ \E p \in Callers, n \in 0..MaxBatch : OneAtATime(p) /\ AddChunksCall(p, n)
    \/ \E p \in Callers : AddChunksLoop(p)
    \/ \E p \in Callers : AddChunksUpsert(p)
    \/ \E p \in Callers : AddChunksReturn(p)
    \/ Clear

\* the store used by one caller at a time
SpecStore == Init /\ [][NextStore]_vars

NextStoreConcurrent ==
    \/ \E p \in Callers, n \in 0..MaxBatch : AddChunksCall(p, n)
    \/ \E p \in Callers : AddChunksLoop(p)
    \/ \E p \in Callers : AddChunksUpsert(p)
    \/ \E p \in Callers : AddChunksReturn(p)
    \/ Clear

\* the store used by two ingestions at once
SpecStoreConcurrent == Init /\ [][NextStoreConcurrent]_vars

----------------------------------------------------------------------------
(* Claims about the vector store                                           *)

\* the chunks in the collection
StoredChunks == {points[id] : id \in DOMAIN points}

\* C26: when add_chunks and clear are executed one at a time, every point id
\* assigned by add_chunks differs from every id already stored and from the
\* other ids of the call, so no stored chunk is overwritten: the collection
\* holds exactly the chunks added since the last clear, one point each (none
\* right after clear).
C26_SequentialIdsAreFresh ==
    /\ \A p \in Callers :
           ac[p].pc = "upsert"
               => \A k \in 1..Len(ac[p].points) :
                      /\ ac[p].points[k].id \notin DOMAIN points
                      /\ \A m \in 1..Len(ac[p].points) :
                             m # k => ac[p].points[m].id # ac[p].points[k].id
    /\ (\A p \in Callers : ac[p].pc = "idle")
           => /\ StoredChunks = added
              /\ Cardinality(DOMAIN points) = Cardinality(added)

\* an add_chunks call of two chunks about to upsert into a collection that
\* already holds the chunks of an earlier call
C26_Witness ==
    \E p \in Callers :
        /\ ac[p].pc = "upsert"
        /\ Len(ac[p].points) = 2
        /\ Cardinality(DOMAIN points) >= 2

\* C27: when two add_chunks calls on the collection interleave, every chunk of
\* both calls is in the collection afterwards: no interleaving makes the two
\* calls assign the same point id.
C27_InterleavedAddsKeepEveryChunk ==
    (\A p \in Callers : ac[p].pc \in {"idle", "return"})
        => \A p \in Callers :
               \A k \in 1..Len(ac[p].chunks) : ac[p].chunks[k] \in StoredChunks

----------------------------------------------------------------------------
(* Ingestion: RAGOrchestrator.ingest_document                              *)

\* the most points the collection holds when ingest_document is called
MaxIngested == 2

\* all the state but that of ingest_document and the collection
notIngestVars == <<settings, chunker, pc, splitVars, docVars, searchVars, rerankVars,
                   genVars, queryVars, primaryVars, added, serial, ac, convVars>>

\* settings.max_file_size_mb, its default
MaxFileSizeMb == 10

\* settings.max_file_size_bytes
max_file_size_bytes == MaxFileSizeMb * 1024 * 1024

\* str.lower() of one character
LowerChar(c) ==
    IF c = "P" THEN "p" ELSE IF c = "D" THEN "d" ELSE IF c = "F" THEN "f" ELSE c

\* str.lower()
lower(t) == [k \in 1..Len(t) |-> LowerChar(t[k])]

\* validate_file that accepts every file
ValidateAnything(filename, file_size) == [is_valid |-> TRUE, error |-> <<>>]

\* IngestionPipeline.validate_file
validate_file(filename, file_size) ==
    IF file_size > max_file_size_bytes
    THEN [is_valid |-> FALSE, error |-> <<"File too large">>]
    ELSE LET parts    == split(filename, <<".">>)
             file_ext == lower(parts[Len(parts)])
         IN  IF file_ext \notin {<<"p", "d", "f">>, <<"t", "x", "t">>}
             THEN [is_valid |-> FALSE, error |-> <<"Unsupported file type">>]
             ELSE IF filename = <<>> \/ Len(filename) < 5
             THEN [is_valid |-> FALSE, error |-> <<"Invalid filename">>]
             ELSE [is_valid |-> TRUE, error |-> <<>>]

\* the file names given to ingest_document: a.pdf, a.txt, a.PDF, .pdf, a.md, the
\* empty name, a name without a dot
Filenames ==
    {<<"a", ".", "p", "d", "f">>, <<"a", ".", "t", "x", "t">>, <<"a", ".", "P", "D", "F">>,
     <<".", "p", "d", "f">>, <<"a", "a", ".", "m", "d">>, <<>>, <<"p", "d", "f">>}

\* the file sizes: a small file, the largest allowed, one byte more
FileSizes == {1, max_file_size_bytes, max_file_size_bytes + 1}

\* Path(filename).suffix.lower().strip("."), for the names validate_file accepts
FileTypeOf(filename) ==
    LET parts == split(filename, <<".">>) IN lower(parts[Len(parts)])

\* the page texts the parser extracts: no page, a page too short for language
\* detection, a page the model is asked about, both, a blank page
ParsedPages ==
    {<<>>, << <<"a">> >>, << <<"a", "a", "a">> >>, << <<"a">>, <<"a", "a", "a">> >>,
     << <<" ">> >>}

\* what DocumentParser.parse does: it raises (a broken file), or it returns the
\* page texts, one page for a txt file
ParseOutcomes(filename) ==
    {[failed |-> TRUE, page_texts |-> <<>>]}
        \cup {[failed |-> FALSE, page_texts |-> pages] :
                 pages \in IF FileTypeOf(filename) = <<"t", "x", "t">>
                           THEN {q \in ParsedPages : Len(q) = 1}
                           ELSE ParsedPages}

\* the answers of the langdetect model during ingestion
IngestDetectOutcomes == {"en", "ar", "LangDetectException"}

\* the caller invokes ingest_document(filename, file_bytes)
IngestCall(filename, file_size) ==
    /\ ipc = "idle"
    /\ Cardinality(DOMAIN points) <= MaxIngested
    /\ i_filename' = filename
    /\ i_size' = file_size
    /\ i_before' = points
    /\ ipc' = "validate"
    /\ UNCHANGED <<points, i_parsed, i_chunks, i_result, i_raised, i_calls>>
    /\ UNCHANGED notIngestVars

\* step 1: is_valid, error = self.ingestion.validate_file(filename, len(file_bytes))
IngestValidate ==
    /\ ipc = "validate"
    /\ i_calls' = Append(i_calls, "validate_file")
    /\ LET v == validate_file(i_filename, i_size)
       IN  IF ~v.is_valid
           THEN /\ i_result' = <<[success |-> FALSE, total_chunks |-> 0,
                                  language |-> "unknown", error_message |-> v.error]>>
                /\ ipc' = "done"
           ELSE /\ ipc' = "parse"
                /\ UNCHANGED i_result
    /\ UNCHANGED <<points, i_filename, i_size, i_parsed, i_chunks, i_raised, i_before>>
    /\ UNCHANGED notIngestVars

\* step 2, IngestionPipeline.ingest: parsed = self.parser.parse(filename, file_bytes)
IngestParse(outcome) ==
    /\ ipc = "parse"
    /\ i_calls' = Append(i_calls, "parse")
    /\ IF outcome.failed
       THEN /\ i_raised' = Exception("ParseError", "parse")
            /\ ipc' = "done"
            /\ UNCHANGED i_parsed
       ELSE /\ i_parsed' = <<outcome.page_texts>>
            /\ ipc' = "chunk"
            /\ UNCHANGED i_raised
    /\ UNCHANGED <<points, i_filename, i_size, i_chunks, i_result, i_before>>
    /\ UNCHANGED notIngestVars

\* step 2, IngestionPipeline.ingest: chunks = self.chunker.chunk_document(...), the
\* chunker being TextChunker(); det is what the model does on each page
IngestChunk(det) ==
    /\ ipc = "chunk"
    /\ i_calls' = Append(i_calls, "chunk_document")
    /\ LET r == chunk_document(TextChunkerInit(NoneInt, NoneInt), i_parsed[1],
                               IF FileTypeOf(i_filename) = <<"p", "d", "f">>
                               THEN "pdf" ELSE "txt", det)
       IN  IF r.raised # None
           THEN /\ i_raised' = Exception(r.raised, "chunk_document")
                /\ ipc' = "done"
                /\ UNCHANGED i_chunks
           ELSE /\ i_chunks' = r.chunks
                /\ ipc' = "language"
                /\ UNCHANGED i_raised
    /\ UNCHANGED <<points, i_filename, i_size, i_parsed, i_result, i_before>>
    /\ UNCHANGED notIngestVars

\* step 2, IngestionPipeline.ingest: primary_language =
\* self._detect_primary_language(chunks); result = IngestionResult(success=True);
\* then `if not result.success: return result` in ingest_document
IngestLanguage(det) ==
    /\ ipc = "language"
    /\ i_calls' = Append(i_calls, "_detect_primary_language")
    /\ LET r == detect_primary_language(i_chunks, det)
       IN  IF r.raised # None
           THEN /\ i_raised' = Exception(r.raised, "_detect_primary_language")
                /\ ipc' = "done"
                /\ UNCHANGED i_result
           ELSE /\ i_result' = <<[success |-> TRUE, total_chunks |-> Len(i_chunks),
                                  language |-> r.language, error_message |-> <<>>]>>
                /\ ipc' = "embed_dense"
                /\ UNCHANGED i_raised
    /\ UNCHANGED <<points, i_filename, i_size, i_parsed, i_chunks, i_before>>
    /\ UNCHANGED notIngestVars

\* step 3: dense_embeddings = self.embedder.embed_dense(texts); embed_dense
\* returns [] for no text, else what provider.embed does (ok: it answers)
IngestEmbedDense(ok) ==
    /\ ipc = "embed_dense"
    /\ i_calls' = i_calls \o <<"embed_dense">>
           \o (IF i_chunks # <<>> THEN <<"provider.embed">> ELSE <<>>)
    /\ IF i_chunks # <<>> /\ ~ok
       THEN /\ i_raised' = Exception("ProviderError", "embed_dense")
            /\ ipc' = "done"
       ELSE /\ ipc' = "embed_sparse"
            /\ UNCHANGED i_raised
    /\ UNCHANGED <<points, i_filename, i_size, i_parsed, i_chunks, i_result, i_before>>
    /\ UNCHANGED notIngestVars

\* step 3: sparse_embeddings = self.embedder.embed_sparse(texts)
IngestEmbedSparse(ok) ==
    /\ ipc = "embed_sparse"
    /\ i_calls' = i_calls \o <<"embed_sparse">>
           \o (IF i_chunks # <<>> THEN <<"sparse_model.embed">> ELSE <<>>)
    /\ IF i_chunks # <<>> /\ ~ok
       THEN /\ i_raised' = Exception("ModelError", "embed_sparse")
            /\ ipc' = "done"
       ELSE /\ ipc' = "store"
            /\ UNCHANGED i_raised
    /\ UNCHANGED <<points, i_filename, i_size, i_parsed, i_chunks, i_result, i_before>>
    /\ UNCHANGED notIngestVars

\* step 4: self.vector_store.add_chunks(chunks, dense_embeddings,
\* sparse_embeddings), then return result; ok is whether the store takes the
\* requests (a request it refuses writes nothing)
IngestStore(ok) ==
    /\ ipc = "store"
    /\ i_calls' = Append(i_calls, "add_chunks")
    /\ IF i_chunks = <<>>
       THEN UNCHANGED <<points, i_raised>>
       ELSE IF ~ok
       THEN /\ i_raised' = Exception("StoreError", "add_chunks")
            /\ UNCHANGED points
       ELSE /\ points' = Upserted(points,
                             [k \in 1..Len(i_chunks) |->
                                [id |-> PointId(k - 1, get_current_count),
                                 chunk |-> i_chunks[k].content]])
            /\ UNCHANGED i_raised
    /\ ipc' = "done"
    /\ UNCHANGED <<i_filename, i_size, i_parsed, i_chunks, i_result, i_before>>
    /\ UNCHANGED notIngestVars

\* the caller takes the result or the exception
IngestReturn ==
    /\ ipc = "done"
    /\ ipc' = "idle"
    /\ i_filename' = <<>>
    /\ i_size' = 0
    /\ i_parsed' = <<>>
    /\ i_chunks' = <<>>
    /\ i_result' = <<>>
    /\ i_raised' = NoException
    /\ i_calls' = <<>>
    /\ i_before' = <<>>
    /\ UNCHANGED points
    /\ UNCHANGED notIngestVars

\* RAGOrchestrator.clear_documents: self.vector_store.clear()
ClearDocuments ==
    /\ ipc = "idle"
    /\ points # <<>>
    /\ points' = <<>>
    /\ UNCHANGED <<ipc, i_filename, i_size, i_parsed, i_chunks, i_result, i_raised,
                   i_calls, i_before>>
    /\ UNCHANGED notIngestVars

NextIngest ==
    \/ ipc = "idle" /\ \E filename \in Filenames, file_size \in FileSizes :
           IngestCall(filename, file_size)
    \/ IngestValidate
    \/ ipc = "parse" /\ \E outcome \in ParseOutcomes(i_filename) : IngestParse(outcome)
    \/ ipc = "chunk" /\
           \E det \in [{k \in 1..Len(i_parsed[1]) : ModelInvoked(i_parsed[1][k])}
                          -> IngestDetectOutcomes] : IngestChunk(det)
    \/ ipc = "language" /\
           \E det \in [1..Len(i_chunks) -> IngestDetectOutcomes] : IngestLanguage(det)
    \/ ipc = "embed_dense" /\ \E ok \in BOOLEAN : IngestEmbedDense(ok)
    \/ ipc = "embed_sparse" /\ \E ok \in BOOLEAN : IngestEmbedSparse(ok)
    \/ ipc = "store" /\ \E ok \in BOOLEAN : IngestStore(ok)
    \/ IngestReturn
    \/ ClearDocuments

\* ingestion of documents, one at a time
SpecIngest == Init /\ [][NextIngest]_vars

----------------------------------------------------------------------------
(* Claims about ingestion                                                  *)

\* the calls ingest_document has made
IngestCalled == {i_calls[k] : k \in 1..Len(i_calls)}

\* the files validation refuses: too large, an extension other than pdf or txt
\* (in any case), a name shorter than 5 characters
RefusedFile ==
    \/ i_size > 10 * 1024 * 1024
    \/ Len(i_filename) < 5
    \/ lower(SubSeq(i_filename, Len(i_filename) - 3, Len(i_filename)))
           \notin {<<".", "p", "d", "f">>, <<".", "t", "x", "t">>}

\* C28: ingest_document writes to the vector store only after file validation,
\* parsing, chunking and both embedding calls have succeeded; when validation
\* fails it returns success = false with total_chunks = 0 without calling the
\* parser or an embedding oracle; on every failing outcome (an exception, or
\* success = false) the collection is as it was when the call was made.
C28_StoreWrittenOnlyOnSuccess ==
    ipc # "idle"
        => /\ points # i_before
                  => /\ i_calls = <<"validate_file", "parse", "chunk_document",
                                    "_detect_primary_language",
                                    "embed_dense", "provider.embed",
                                    "embed_sparse", "sparse_model.embed", "add_chunks">>
                     /\ ~RefusedFile
                     /\ i_raised = NoException
                     /\ Len(i_result) = 1 /\ i_result[1].success
           /\ (ipc = "done" /\ RefusedFile)
                  => /\ i_raised = NoException
                     /\ Len(i_result) = 1
                     /\ ~i_result[1].success
                     /\ i_result[1].total_chunks = 0
                     /\ i_calls = <<"validate_file">>
           /\ (ipc = "done" /\ (i_raised # NoException \/ ~i_result[1].success))
                  => points = i_before

\* the sparse embedding failed after the dense one succeeded, on a document of
\* two chunks and a collection that already held points
C28_Witness ==
    /\ ipc = "done"
    /\ i_raised.raised_in = "embed_sparse"
    /\ Len(i_chunks) = 2
    /\ i_before # <<>>
    /\ points = i_before

----------------------------------------------------------------------------
(* Claims about the order of the steps of a query                          *)

\* the calls query has made
QueryCalled == {q_calls[k] : k \in 1..Len(q_calls)}

\* C29: a query on a vector store with zero stored chunks (the store answering)
\* returns a result with has_answer = false and no sources without invoking the
\* embedding, search, rerank or generation oracles; in every query the reranker
\* is invoked only after the search returned at least one candidate, and the
\* generator only after the rerank step.
C29_EmptyStoreShortCircuits ==
    /\ (qpc = "done" /\ q_total_chunks = 0 /\ q_failed = "none")
           => /\ q_raised = NoException
              /\ Len(q_result) = 1
              /\ ~q_result[1].has_answer
              /\ q_result[1].sources = <<>>
              /\ QueryCalled \cap {"embed_dense_query", "embed_sparse_query",
                                   "search_hybrid", "rerank", "provider.rerank",
                                   "generate", "generate_text"} = {}
    /\ \A k \in 1..Len(q_calls) :
           /\ q_calls[k] = "rerank"
                  => /\ \E j \in 1..k - 1 : q_calls[j] = "search_hybrid"
                     /\ Len(q_search_results) = 1 /\ q_search_results[1] # <<>>
           /\ q_calls[k] = "generate"
                  => /\ \E j \in 1..k - 1 : q_calls[j] = "search_hybrid"
                     /\ \A j \in 1..Len(q_calls) : q_calls[j] = "rerank" => j < k
                     /\ q_search_results[1] # <<>>
                            => \E j \in 1..k - 1 : q_calls[j] = "rerank"

----------------------------------------------------------------------------
(* The conversation: ConversationContext                                   *)

\* the most messages of a conversation
MaxMessages == 4

\* the largest max_turns asked for
MaxTurns == 3

\* all the state but that of the conversation
notConvVars == <<settings, chunker, pc, splitVars, docVars, searchVars, rerankVars,
                 genVars, queryVars, primaryVars, storeVars, ingestVars>>

\* ChatRole
ChatRoles == {"user", "assistant", "system"}

\* ConversationContext.add_message(role, content); the content is the number of
\* the message
AddMessage(role) ==
    /\ cpc = "idle"
    /\ Len(c_messages) < MaxMessages
    /\ c_messages' = Append(c_messages, [role |-> role, content |-> Len(c_messages) + 1])
    /\ UNCHANGED <<c_max_turns, c_out, cpc>>
    /\ UNCHANGED notConvVars

\* ConversationContext.get_recent_messages
get_recent_messages(messages, max_turns) ==
    LET max_messages == max_turns * 2
    IN  IF messages # <<>>
        THEN Slice(messages, 0 - max_messages, Len(messages))
        ELSE <<>>

\* the caller invokes get_recent_messages(max_turns)
GetRecentMessages(max_turns) ==
    /\ cpc = "idle"
    /\ c_max_turns' = max_turns
    /\ c_out' = get_recent_messages(c_messages, max_turns)
    /\ cpc' = "done"
    /\ UNCHANGED c_messages
    /\ UNCHANGED notConvVars

\* the caller takes the messages
RecentReturn ==
    /\ cpc = "done"
    /\ c_max_turns' = 0
    /\ c_out' = <<>>
    /\ cpc' = "idle"
    /\ UNCHANGED c_messages
    /\ UNCHANGED notConvVars

\* ConversationContext.clear
ClearConversation ==
    /\ cpc = "idle"
    /\ c_messages # <<>>
    /\ c_messages' = <<>>
    /\ UNCHANGED <<c_max_turns, c_out, cpc>>
    /\ UNCHANGED notConvVars

NextConversation ==
    \/ \E role \in ChatRoles : AddMessage(role)
    \/ \E max_turns \in 0..MaxTurns : GetRecentMessages(max_turns)
    \/ RecentReturn
    \/ ClearConversation

\* a conversation
SpecConversation == Init /\ [][NextConversation]_vars

----------------------------------------------------------------------------
(* Claims about the conversation                                           *)

\* C30: for every conversation and every max_turns >= 0, get_recent_messages
\* returns the most recent min(len(messages), 2 * max_turns) messages in their
\* original order, so never more than 2 * max_turns messages.
C30_RecentMessagesBounded ==
    cpc = "done"
        => LET n == IF Len(c_messages) < 2 * c_max_turns THEN Len(c_messages)
                    ELSE 2 * c_max_turns
           IN  /\ Len(c_out) = n
               /\ Len(c_out) <= 2 * c_max_turns
               /\ \A k \in 1..n : c_out[k] = c_messages[Len(c_messages) - n + k]

====
